---- MODULE Spec2Model ----
(***************************************************************************)
(* JobsAI: the rate limiter (jobsai/utils/rate_limiter.py), the job state  *)
(* store (jobsai/utils/state_manager.py), the API routes                   *)
(* (jobsai/api/routes/pipeline.py), the pipeline orchestrator              *)
(* (jobsai/main.py) and the worker (lambda_worker.py).                     *)
(***************************************************************************)
EXTENDS Integers, Sequences, FiniteSets, TLC

(***************************************************************************)
(* Bounds of the model.  The window length and the cleanup buffer are the  *)
(* program's RATE_LIMIT_WINDOW_SECONDS (3600) and the literal 300 of       *)
(* rate_limiter.py:132, scaled down so that several windows fit in         *)
(* 0..MaxTime.                                                             *)
(***************************************************************************)
RATE_LIMIT_WINDOW_SECONDS == 2
TtlBuffer == 2
MaxTime == 4
MaxCalls == 7
NumCallers == 2

\* rate_limiter.py:28, the default of RATE_LIMIT_REQUESTS
RATE_LIMIT_REQUESTS == 5

\* Python's None in an integer position
None == -1

Callers == 1..NumCallers
Windows == {t \in 0..MaxTime : t % RATE_LIMIT_WINDOW_SECONDS = 0}

\* A call of check_rate_limit is taken to finish sooner than the cleanup
\* buffer that the code adds to the record's ttl (rate_limiter.py:132).
CallTimeout == TtlBuffer - 1

VARIABLES
    now,          \* int(time.time())
    rlItem,       \* the DynamoDB item "rate_limit:<ip>" of one client identity
    rlPc,         \* per caller: position inside check_rate_limit
    rlWindow,     \* per caller: local window_start
    rlTtl,        \* per caller: local ttl
    rlStart,      \* per caller: local current_time
    rlFailed,     \* per caller: a store operation of this call failed
    rlResult,     \* per caller: the returned tuple (or a raised exception)
    callsMade,    \* number of calls begun so far (bounded by MaxCalls)
    callsIn,      \* per window: calls begun that computed this window_start
    admitted      \* per window: calls that returned allowed=True with a count

rlVars == <<now, rlItem, rlPc, rlWindow, rlTtl, rlStart, rlFailed, rlResult,
            callsMade, callsIn, admitted>>

VARIABLES
    jobItem,      \* the DynamoDB item of the job (Key job_id)
    lastOp,       \* the last state_manager call made directly: name, input, outcome
    apiPc,        \* the POST /api/start request: position in middleware/handler
    reqLimited,   \* the identity's limit was exhausted when the request arrived
    startStatus,  \* HTTP status answered to POST /api/start (0: none yet)
    pipeline_states, \* per API instance: the status held in its in-memory dict
    progressResp, \* per API instance: its last answer to GET /api/progress
    cPc,          \* the POST /api/cancel request: position in cancel_pipeline
    cancelsMade,  \* number of cancel requests so far (bounded by MaxCancels)
    cancelAt,     \* where the worker stood when status first became cancelling
    wPc,          \* the worker invocation: position in worker_handler / main
    wStep,        \* the pipeline step (1..6) the worker is at
    invoked,      \* steps whose agent call has been made
    raisedExc,    \* the exception main() raised to worker_handler
    cancelSeen,   \* the checkpoint at which cancellation_check() returned True
    wTerminal,    \* the terminal status written by worker_handler
    s3Keys,       \* the documents were stored in S3 (s3_keys non-empty)
    emailSent     \* outcome of send_cover_letters_email

VARIABLES
    all_jobs,     \* the list handed to SearcherService._deduplicate_jobs
    deduped,      \* the list _deduplicate_jobs returns
    dedupPc,      \* position of the _deduplicate_jobs call
    futures,      \* per board of one query: the state of its scraping task
    results,      \* the results list of _scrape_boards_parallel
    fanPc         \* position of the _scrape_boards_parallel call

VARIABLES
    searchPc,     \* position of the search_jobs call
    queryNo,      \* the position in keywords of the query being searched
    observedBy    \* who has seen cancellation_check() return True so far

orchVars == <<searchPc, queryNo, observedBy>>

VARIABLES
    scParams,     \* the arguments num_pages, per_page_limit, deep_mode
    scPc,         \* position of the scrape_jobs call
    scPage,       \* the loop variable page
    scCards,      \* len(job_cards) of the page being processed
    scCard,       \* the position in job_cards of the card being processed
    scResults,    \* the results list of scrape_jobs
    scFetched     \* the search pages fetched so far, with status and cards

scrapeVars == <<scParams, scPc, scPage, scCards, scCard, scResults, scFetched>>

VARIABLES
    fpRetries,    \* the argument retries of _fetch_page
    fpPc,         \* position of the _fetch_page call
    fpGets,       \* what each session.get of the call came back with
    fpResult,     \* last_response, and in the end the value returned
    fpSleeps      \* the backoff sleeps of the call, in units of backoff

fetchVars == <<fpRetries, fpPc, fpGets, fpResult, fpSleeps>>

searchRest == <<orchVars, scrapeVars, fetchVars>>

searchVars == <<all_jobs, deduped, dedupPc, futures, results, fanPc,
                searchRest>>

jobVars == <<jobItem, lastOp, apiPc, reqLimited, startStatus, pipeline_states,
             progressResp, cPc, cancelsMade, searchVars,
             cancelAt, wPc, wStep, invoked, raisedExc, cancelSeen, wTerminal,
             s3Keys, emailSent>>

vars == <<rlVars, jobVars>>

NoItem == [exists |-> FALSE, count |-> 0, window_start |-> 0, ttl |-> 0]

NoResult == [allowed |-> FALSE, remaining |-> None, reset_at |-> None,
             raised |-> FALSE, returned |-> FALSE]

Returned(a, rem, reset) ==
    [allowed |-> a, remaining |-> rem, reset_at |-> reset,
     raised |-> FALSE, returned |-> TRUE]

Max(a, b) == IF a >= b THEN a ELSE b

\* window_start = current_time - (current_time % RATE_LIMIT_WINDOW_SECONDS)
WindowStart(t) == t - (t % RATE_LIMIT_WINDOW_SECONDS)

\* ttl = current_time + RATE_LIMIT_WINDOW_SECONDS + 300
Ttl(t) == t + RATE_LIMIT_WINDOW_SECONDS + TtlBuffer

\* reset_at = window_start + RATE_LIMIT_WINDOW_SECONDS
ResetAt(w) == w + RATE_LIMIT_WINDOW_SECONDS

IncrementCondition_OffByOne(item, w) ==
    /\ item.exists
    /\ item.window_start = w
    /\ item.count <= RATE_LIMIT_REQUESTS

IncrementCondition_AnyWindow(item, w) ==
    /\ item.exists
    /\ item.count < RATE_LIMIT_REQUESTS

\* ConditionExpression="#window = :window AND #count < :limit"
\* (false when the item or the attributes do not exist)
IncrementCondition(item, w) ==
    /\ item.exists
    /\ item.window_start = w
    /\ item.count < RATE_LIMIT_REQUESTS

\* UpdateExpression="ADD #count :one SET #window = :window, #ttl = :ttl"
IncrementedItem(item, w, ttl) ==
    [exists |-> TRUE, count |-> item.count + 1, window_start |-> w, ttl |-> ttl]

\* "SET #count = :one, #window = :window, #ttl = :ttl" and the put_item Item
FreshItem(w, ttl) ==
    [exists |-> TRUE, count |-> 1, window_start |-> w, ttl |-> ttl]

RlInit ==
    /\ now = 0
    /\ rlItem = NoItem
    /\ rlPc = [p \in Callers |-> "idle"]
    /\ rlWindow = [p \in Callers |-> 0]
    /\ rlTtl = [p \in Callers |-> 0]
    /\ rlStart = [p \in Callers |-> 0]
    /\ rlFailed = [p \in Callers |-> FALSE]
    /\ rlResult = [p \in Callers |-> NoResult]
    /\ callsMade = 0
    /\ callsIn = [w \in Windows |-> 0]
    /\ admitted = [w \in Windows |-> 0]

\* A call returns: the tuple is recorded, an admission with a count is tallied
\* against the window the call computed.
Return(p, res) ==
    /\ rlPc' = [rlPc EXCEPT ![p] = "done"]
    /\ rlResult' = [rlResult EXCEPT ![p] = res]
    /\ admitted' = IF res.allowed /\ res.remaining # None
                   THEN [admitted EXCEPT ![rlWindow[p]] = @ + 1]
                   ELSE admitted

\* rate_limiter.py:124-133: the call reads the clock and computes its window
Begin(p) ==
    /\ rlPc[p] = "idle"
    /\ callsMade < MaxCalls
    /\ callsMade' = callsMade + 1
    /\ rlPc' = [rlPc EXCEPT ![p] = "update"]
    /\ rlStart' = [rlStart EXCEPT ![p] = now]
    /\ rlWindow' = [rlWindow EXCEPT ![p] = WindowStart(now)]
    /\ rlTtl' = [rlTtl EXCEPT ![p] = Ttl(now)]
    /\ callsIn' = [callsIn EXCEPT ![WindowStart(now)] = @ + 1]
    /\ UNCHANGED <<now, rlItem, rlFailed, rlResult, admitted>>
    /\ UNCHANGED jobVars

\* rate_limiter.py:143-180: the conditional update_item
UpdateItem(p) ==
    /\ rlPc[p] = "update"
    /\ \/ /\ IncrementCondition(rlItem, rlWindow[p])
          /\ rlItem' = IncrementedItem(rlItem, rlWindow[p], rlTtl[p])
          /\ Return(p, Returned(TRUE,
                                Max(0, RATE_LIMIT_REQUESTS - rlItem'.count),
                                ResetAt(rlWindow[p])))
       \/ /\ ~IncrementCondition(rlItem, rlWindow[p])
          /\ rlPc' = [rlPc EXCEPT ![p] = "get"]
          /\ UNCHANGED <<rlItem, rlResult, admitted>>
    /\ UNCHANGED <<now, rlWindow, rlTtl, rlStart, rlFailed, callsMade, callsIn>>
    /\ UNCHANGED jobVars

\* a variant in which the rejected call refreshes the record's ttl
GetItem_RejectRefreshesTtl(p) ==
    /\ rlPc[p] = "get"
    /\ \/ /\ rlItem.exists
          /\ rlItem.window_start = rlWindow[p]
          /\ rlItem.count >= RATE_LIMIT_REQUESTS
          /\ rlItem' = [rlItem EXCEPT !.ttl = rlTtl[p]]
          /\ Return(p, Returned(FALSE, 0, ResetAt(rlWindow[p])))
       \/ /\ rlItem.exists
          /\ rlItem.window_start # rlWindow[p]
          /\ rlPc' = [rlPc EXCEPT ![p] = "reset"]
          /\ UNCHANGED <<rlItem, rlResult, admitted>>
       \/ /\ \/ ~rlItem.exists
             \/ /\ rlItem.window_start = rlWindow[p]
                /\ rlItem.count < RATE_LIMIT_REQUESTS
          /\ rlPc' = [rlPc EXCEPT ![p] = "put"]
          /\ UNCHANGED <<rlItem, rlResult, admitted>>
    /\ UNCHANGED <<now, rlWindow, rlTtl, rlStart, rlFailed,
                   callsMade, callsIn>>
    /\ UNCHANGED jobVars

\* rate_limiter.py:183-214: get_item after ConditionalCheckFailedException
GetItem(p) ==
    /\ rlPc[p] = "get"
    /\ \/ /\ rlItem.exists
          /\ rlItem.window_start = rlWindow[p]
          /\ rlItem.count >= RATE_LIMIT_REQUESTS
          /\ Return(p, Returned(FALSE, 0, ResetAt(rlWindow[p])))
       \/ /\ rlItem.exists
          /\ rlItem.window_start # rlWindow[p]
          /\ rlPc' = [rlPc EXCEPT ![p] = "reset"]
          /\ UNCHANGED <<rlResult, admitted>>
       \/ /\ \/ ~rlItem.exists
             \/ /\ rlItem.window_start = rlWindow[p]
                /\ rlItem.count < RATE_LIMIT_REQUESTS
          /\ rlPc' = [rlPc EXCEPT ![p] = "put"]
          /\ UNCHANGED <<rlResult, admitted>>
    /\ UNCHANGED <<now, rlItem, rlWindow, rlTtl, rlStart, rlFailed,
                   callsMade, callsIn>>
    /\ UNCHANGED jobVars

\* rate_limiter.py:215-244: "Window changed - reset count"
ResetItem(p) ==
    /\ rlPc[p] = "reset"
    /\ rlItem' = FreshItem(rlWindow[p], rlTtl[p])
    /\ Return(p, Returned(TRUE, RATE_LIMIT_REQUESTS - 1, ResetAt(rlWindow[p])))
    /\ UNCHANGED <<now, rlWindow, rlTtl, rlStart, rlFailed, callsMade, callsIn>>
    /\ UNCHANGED jobVars

\* rate_limiter.py:248-272: "Item doesn't exist or other error - create new one"
PutItem(p) ==
    /\ rlPc[p] = "put"
    /\ rlItem' = FreshItem(rlWindow[p], rlTtl[p])
    /\ Return(p, Returned(TRUE, RATE_LIMIT_REQUESTS - 1, ResetAt(rlWindow[p])))
    /\ UNCHANGED <<now, rlWindow, rlTtl, rlStart, rlFailed, callsMade, callsIn>>
    /\ UNCHANGED jobVars

\* The caller consumes the tuple; the frame of the call is gone.
Finish(p) ==
    /\ rlPc[p] = "done"
    /\ rlPc' = [rlPc EXCEPT ![p] = "idle"]
    /\ rlWindow' = [rlWindow EXCEPT ![p] = 0]
    /\ rlTtl' = [rlTtl EXCEPT ![p] = 0]
    /\ rlStart' = [rlStart EXCEPT ![p] = 0]
    /\ rlFailed' = [rlFailed EXCEPT ![p] = FALSE]
    /\ rlResult' = [rlResult EXCEPT ![p] = NoResult]
    /\ UNCHANGED <<now, rlItem, callsMade, callsIn, admitted>>
    /\ UNCHANGED jobVars

\* time.time() advances; a call in flight lasts at most CallTimeout
Tick ==
    /\ now < MaxTime
    /\ \A p \in Callers :
          rlPc[p] \in {"update", "get", "reset", "put"}
             => now + 1 - rlStart[p] <= CallTimeout
    /\ now' = now + 1
    /\ UNCHANGED <<rlItem, rlPc, rlWindow, rlTtl, rlStart, rlFailed, rlResult,
                   callsMade, callsIn, admitted>>
    /\ UNCHANGED jobVars

\* DynamoDB TTL: an item whose ttl attribute has passed is deleted by the table
Expire ==
    /\ rlItem.exists
    /\ now >= rlItem.ttl
    /\ rlItem' = NoItem
    /\ UNCHANGED <<now, rlPc, rlWindow, rlTtl, rlStart, rlFailed, rlResult,
                   callsMade, callsIn, admitted>>
    /\ UNCHANGED jobVars

\* rate_limiter.py:116-122: get_dynamodb_client() returned None
ClientUnavailable(p) ==
    /\ rlPc[p] = "idle"
    /\ callsMade < MaxCalls
    /\ callsMade' = callsMade + 1
    /\ rlFailed' = [rlFailed EXCEPT ![p] = TRUE]
    /\ Return(p, Returned(TRUE, None, None))
    /\ UNCHANGED <<now, rlItem, rlWindow, rlTtl, rlStart, callsIn>>
    /\ UNCHANGED jobVars

\* rate_limiter.py:273-290: update_item fails with another error code; the
\* handler re-raises and the enclosing "except Exception" admits
UpdateItemFault(p) ==
    /\ rlPc[p] = "update"
    /\ rlFailed' = [rlFailed EXCEPT ![p] = TRUE]
    /\ Return(p, Returned(TRUE, None, None))
    /\ UNCHANGED <<now, rlItem, rlWindow, rlTtl, rlStart, callsMade, callsIn>>
    /\ UNCHANGED jobVars

\* rate_limiter.py:245-246: get_item raises; "pass  # Fall through to create
\* new item"
GetItemFault(p) ==
    /\ rlPc[p] = "get"
    /\ rlFailed' = [rlFailed EXCEPT ![p] = TRUE]
    /\ rlPc' = [rlPc EXCEPT ![p] = "put"]
    /\ UNCHANGED <<now, rlItem, rlWindow, rlTtl, rlStart, rlResult,
                   callsMade, callsIn, admitted>>
    /\ UNCHANGED jobVars

\* rate_limiter.py:215-229, 245-246: the reset update_item raises inside the
\* same try block and falls through to put_item as well
ResetItemFault(p) ==
    /\ rlPc[p] = "reset"
    /\ rlFailed' = [rlFailed EXCEPT ![p] = TRUE]
    /\ rlPc' = [rlPc EXCEPT ![p] = "put"]
    /\ UNCHANGED <<now, rlItem, rlWindow, rlTtl, rlStart, rlResult,
                   callsMade, callsIn, admitted>>
    /\ UNCHANGED jobVars

PutItemFault_FailClosed(p) ==
    /\ rlPc[p] = "put"
    /\ rlFailed' = [rlFailed EXCEPT ![p] = TRUE]
    /\ Return(p, Returned(FALSE, 0, ResetAt(rlWindow[p])))
    /\ UNCHANGED <<now, rlItem, rlWindow, rlTtl, rlStart, callsMade, callsIn>>
    /\ UNCHANGED jobVars

\* rate_limiter.py:249-257, 277-290: put_item raises inside the handler of
\* the inner try; the enclosing "except Exception" admits
PutItemFault(p) ==
    /\ rlPc[p] = "put"
    /\ rlFailed' = [rlFailed EXCEPT ![p] = TRUE]
    /\ Return(p, Returned(TRUE, None, None))
    /\ UNCHANGED <<now, rlItem, rlWindow, rlTtl, rlStart, callsMade, callsIn>>
    /\ UNCHANGED jobVars

(***************************************************************************)
(* The job state store: jobsai/utils/state_manager.py.  A Python None and  *)
(* a missing dict key are "none"; a missing DynamoDB attribute is          *)
(* "absent".                                                               *)
(***************************************************************************)

\* state_manager.py:132, timedelta(hours=1), scaled down
RetentionHorizon == 3
MaxCancels == 2
MaxOps == 4

Statuses == {"running", "cancelling", "cancelled", "complete", "error"}
Terminal == {"complete", "error", "cancelled"}

\* main.py:170, 215, 235, 260, 281: the phase each step reports (step 2
\* reports none)
Phase == <<"profiling", "none", "searching", "scoring", "analyzing",
           "generating">>

\* main.py:178, 201, 220, 240, 265, 286: the step names of @pipeline_step
StepName == <<"Profiling candidate", "Creating keywords", "Searching jobs",
              "Scoring jobs", "Analyzing jobs", "Generating cover letters">>

AbsentItem ==
    [exists |-> FALSE, status |-> "absent", progress |-> "absent",
     result |-> "absent", error |-> "absent", created_at |-> None,
     ttl |-> None, delivery_method |-> "absent", email |-> "absent"]

\* pipeline.py:73-77: delivery_method and email of the payload
Deliveries ==
    { [delivery_method |-> "none", email |-> "none"],
      [delivery_method |-> "email", email |-> "user@example.com"] }

\* pipeline.py:65-77: initial_state
InitialState(t, d) ==
    [status |-> "running", progress |-> "none", result |-> "none",
     error |-> "none", created_at |-> t,
     delivery_method |-> d.delivery_method, email |-> d.email]

\* "if state.get(x): item[x] = ..." : only truthy values become attributes
Attr(x) == IF x = "none" THEN "absent" ELSE x

JobItem_Merge(old, state, t) ==
    [exists |-> TRUE,
     status |-> state.status,
     created_at |-> state.created_at,
     ttl |-> t + RetentionHorizon,
     progress |-> IF state.progress = "none" THEN old.progress
                  ELSE state.progress,
     result |-> IF state.result = "none" THEN old.result ELSE state.result,
     error |-> IF state.error = "none" THEN old.error ELSE state.error,
     delivery_method |-> Attr(state.delivery_method),
     email |-> Attr(state.email)]

\* state_manager.py:122-159: the item store_job_state puts; put_item replaces
\* whatever item the key had
JobItem(old, state, t) ==
    [exists |-> TRUE,
     status |-> state.status,
     created_at |-> state.created_at,
     ttl |-> t + RetentionHorizon,
     progress |-> Attr(state.progress),
     result |-> Attr(state.result),
     error |-> Attr(state.error),
     delivery_method |-> Attr(state.delivery_method),
     email |-> Attr(state.email)]

SetProgress_ResetsStatus(it, progress) ==
    [it EXCEPT !.exists = TRUE, !.progress = progress, !.status = "running"]

\* state_manager.py:290-295: "SET #progress = :progress" (update_item creates
\* the item when the key has none)
SetProgress(it, progress) ==
    [it EXCEPT !.exists = TRUE, !.progress = progress]

\* state_manager.py:644-666: "SET #status = :status" plus result and error
\* when they are truthy
SetStatus(it, status, result, error) ==
    [it EXCEPT !.exists = TRUE,
               !.status = status,
               !.result = IF result # "none" THEN result ELSE @,
               !.error = IF error # "none" THEN error ELSE @]

\* state_manager.py:586-591
GetCancellationFlag(it) ==
    /\ it.exists
    /\ it.status \in {"cancelling", "cancelled"}

NoOp ==
    [op |-> "none", seq |-> 0, existed |-> FALSE, before_status |-> "absent",
     had_result |-> FALSE, had_progress |-> FALSE,
     state |-> InitialState(0, [delivery_method |-> "none", email |-> "none"]),
     raised |-> "none", failed |-> FALSE]

Called(op, state, raised) ==
    [op |-> op, seq |-> lastOp.seq + 1, existed |-> jobItem.exists,
     before_status |-> jobItem.status,
     had_result |-> jobItem.result # "absent",
     had_progress |-> jobItem.progress # "absent",
     state |-> state, raised |-> raised, failed |-> FALSE]

\* a call during which the store was unreachable or the store operation failed
CalledFailed(op, state, raised) ==
    [Called(op, state, raised) EXCEPT !.failed = TRUE]

\* The API process instances (Lambda containers): the one that served
\* POST /api/start and one that started with an empty pipeline_states
Instances == {"creator", "fresh"}

\* no GET /api/progress answered yet
NoResponse == [code |-> 0, status |-> "none", item |-> AbsentItem, ok |-> TRUE]

\* state_manager.py:180-263: get_job_state returns the state of the item, or
\* None when there is no item or the store operation fails; "none" is None
GetJobState(it, ok) ==
    IF ok /\ it.exists
    THEN (IF it.status = "absent" THEN "unknown" ELSE it.status)
    ELSE "none"

\* state_helpers.py:38-45: the store first, then this instance's
\* pipeline_states; "none" stands for HTTPException 404
GetJobStateWithFallback(i, ok) ==
    IF GetJobState(jobItem, ok) # "none"
    THEN GetJobState(jobItem, ok)
    ELSE pipeline_states[i]

\* the positions of the job_boards list of one query
NumBoards == 2
Boards == 1..NumBoards

\* a board whose task has not been submitted
NoTask == [state |-> "none", jobs |-> <<>>, collected |-> FALSE]

\* no job created, no request made, no worker invoked
JobStateInit ==
    /\ lastOp = NoOp
    /\ apiPc = "idle"
    /\ reqLimited = FALSE
    /\ startStatus = 0
    /\ pipeline_states = [i \in Instances |-> "none"]
    /\ progressResp = [i \in Instances |-> NoResponse]
    /\ cPc = "idle"
    /\ cancelsMade = 0
    /\ cancelAt = [pc |-> "none", step |-> 0]
    /\ wPc = "none"
    /\ wStep = 0
    /\ invoked = {}
    /\ raisedExc = "none"
    /\ cancelSeen = "none"
    /\ wTerminal = "none"
    /\ s3Keys = FALSE
    /\ emailSent = "none"

\* no _deduplicate_jobs call under way
DedupIdle ==
    /\ all_jobs = <<>>
    /\ deduped = <<>>
    /\ dedupPc = "idle"

\* no _scrape_boards_parallel call under way
FanIdle ==
    /\ futures = [b \in Boards |-> NoTask]
    /\ results = <<>>
    /\ fanPc = "idle"

\* no scrape_jobs call under way
ScrapeIdle ==
    /\ scParams = [num_pages |-> 0, per_page_limit |-> None,
                   deep_mode |-> FALSE]
    /\ scPc = "idle"
    /\ scPage = 0
    /\ scCards = 0
    /\ scCard = 0
    /\ scResults = <<>>
    /\ scFetched = <<>>

\* no _fetch_page call under way
FetchIdle ==
    /\ fpRetries = 0
    /\ fpPc = "idle"
    /\ fpGets = <<>>
    /\ fpResult = "none"
    /\ fpSleeps = <<>>

\* no search_jobs call under way
SearchIdle ==
    /\ searchPc = "idle"
    /\ queryNo = 0
    /\ observedBy = {}

JobInit ==
    /\ jobItem = AbsentItem
    /\ JobStateInit
    /\ DedupIdle
    /\ FanIdle
    /\ SearchIdle
    /\ ScrapeIdle
    /\ FetchIdle

apiVars == <<apiPc, reqLimited, startStatus, pipeline_states, progressResp>>
cancelVars == <<cPc, cancelsMade, cancelAt>>
workerVars == <<wPc, wStep, invoked, raisedExc, cancelSeen, wTerminal,
                s3Keys, emailSent>>

(***************************************************************************)
(* state_manager called directly, with the inputs the program passes.      *)
(***************************************************************************)

\* state_manager.py:92-177, store_job_state(job_id, state)
StoreJobStateCall(state) ==
    /\ lastOp.seq < MaxOps
    /\ jobItem' = JobItem(jobItem, state, now)
    /\ lastOp' = Called("store_job_state", state, "none")
    /\ UNCHANGED <<rlVars, searchVars, apiVars, cancelVars, workerVars>>

\* state_manager.py:266-319, update_job_progress(job_id, progress)
UpdateJobProgressCall(progress) ==
    /\ lastOp.seq < MaxOps
    /\ jobItem' = SetProgress(jobItem, progress)
    /\ lastOp' = Called("update_job_progress",
                        [lastOp.state EXCEPT !.progress = progress], "none")
    /\ UNCHANGED <<rlVars, searchVars, apiVars, cancelVars, workerVars>>

\* state_manager.py:608-692, update_job_status(job_id, status, result, error)
UpdateJobStatusCall(status, result, error) ==
    /\ lastOp.seq < MaxOps
    /\ jobItem' = SetStatus(jobItem, status, result, error)
    /\ lastOp' = Called("update_job_status",
                        [lastOp.state EXCEPT !.status = status,
                                             !.result = result,
                                             !.error = error], "none")
    /\ UNCHANGED <<rlVars, searchVars, apiVars, cancelVars, workerVars>>

\* state_manager.py:114-118: get_dynamodb_resource() returned None;
\* store_job_state logs and returns
StoreJobStateUnavailable(state) ==
    /\ lastOp.seq < MaxOps
    /\ lastOp' = CalledFailed("store_job_state", state, "none")
    /\ UNCHANGED <<rlVars, searchVars, jobItem, apiVars, cancelVars, workerVars>>

\* state_manager.py:158, 164-177: put_item raises; store_job_state logs and
\* re-raises
StoreJobStateFault(state) ==
    /\ lastOp.seq < MaxOps
    /\ lastOp' = CalledFailed("store_job_state", state, "Exception")
    /\ UNCHANGED <<rlVars, searchVars, jobItem, apiVars, cancelVars, workerVars>>

\* state_manager.py:283-286, 308-319: no resource, or update_item raises;
\* update_job_progress logs and returns
UpdateJobProgressFault(progress) ==
    /\ lastOp.seq < MaxOps
    /\ lastOp' = CalledFailed("update_job_progress",
                              [lastOp.state EXCEPT !.progress = progress],
                              "none")
    /\ UNCHANGED <<rlVars, searchVars, jobItem, apiVars, cancelVars, workerVars>>

\* state_manager.py:637-641, 680-692: no resource, or update_item raises;
\* update_job_status logs and returns
UpdateJobStatusFault(status, result, error) ==
    /\ lastOp.seq < MaxOps
    /\ lastOp' = CalledFailed("update_job_status",
                              [lastOp.state EXCEPT !.status = status,
                                                   !.result = result,
                                                   !.error = error], "none")
    /\ UNCHANGED <<rlVars, searchVars, jobItem, apiVars, cancelVars, workerVars>>

StoreNext ==
    \/ \E d \in Deliveries : StoreJobStateCall(InitialState(now, d))
    \/ \E s \in {1, 3, 4, 5, 6} : UpdateJobProgressCall(Phase[s])
    \/ UpdateJobStatusCall("cancelling", "none", "none")
    \/ UpdateJobStatusCall("cancelled", "none", "none")
    \/ UpdateJobStatusCall("complete", "result_data", "none")
    \/ \E s \in 1..6 : UpdateJobStatusCall("error", "none", StepName[s])
    \/ Tick

(***************************************************************************)
(* The API: api/middleware/rate_limiting.py and api/routes/pipeline.py.    *)
(***************************************************************************)

\* the identity's record is at the limit in the window of the current time
Exhausted ==
    /\ rlItem.exists
    /\ rlItem.window_start = WindowStart(now)
    /\ rlItem.count >= RATE_LIMIT_REQUESTS

\* rate_limiting.py:33-35: POST /api/start is handed to call_next at once
RateLimitMiddleware ==
    /\ apiPc = "idle"
    /\ apiPc' = "handler"
    /\ reqLimited' = Exhausted
    /\ UNCHANGED <<rlVars, searchVars, jobItem, lastOp, startStatus, pipeline_states,
                   progressResp, cancelVars, workerVars>>

\* pipeline.py:58-99: start_pipeline stores the initial state in the table
\* and in pipeline_states
StartStore ==
    /\ apiPc = "handler"
    /\ \E d \in Deliveries : jobItem' = JobItem(jobItem, InitialState(now, d), now)
    /\ pipeline_states' = [pipeline_states EXCEPT !["creator"] = "running"]
    /\ apiPc' = "stored"
    /\ UNCHANGED <<rlVars, searchVars, lastOp, reqLimited, startStatus, progressResp,
                   cancelVars, workerVars>>

\* pipeline.py:80-99: store_job_state raises (or finds no resource and
\* returns); the handler logs a warning and keeps the in-memory copy
StartStoreFault ==
    /\ apiPc = "handler"
    /\ pipeline_states' = [pipeline_states EXCEPT !["creator"] = "running"]
    /\ apiPc' = "stored"
    /\ UNCHANGED <<rlVars, searchVars, jobItem, lastOp, reqLimited, startStatus,
                   progressResp, cancelVars, workerVars>>

\* pipeline.py:143-239, state_helpers.py:23-45: GET /api/progress/{job_id}
\* served by instance i; ok: the get_item of this request succeeds
GetProgress(i) ==
    /\ \E ok \in BOOLEAN :
          progressResp' = [progressResp EXCEPT ![i] =
              [code |-> IF GetJobStateWithFallback(i, ok) = "none"
                        THEN 404 ELSE 200,
               status |-> GetJobStateWithFallback(i, ok),
               item |-> jobItem,
               ok |-> ok]]
    /\ UNCHANGED <<rlVars, searchVars, jobItem, lastOp, apiPc, reqLimited, startStatus,
                   pipeline_states, cancelVars, workerVars>>

\* state_helpers.py:18, state_manager.py:131-132: the table's TTL deletes an
\* item whose ttl has passed
JobExpire ==
    /\ jobItem.exists
    /\ jobItem.ttl # None
    /\ now >= jobItem.ttl
    /\ jobItem' = AbsentItem
    /\ UNCHANGED <<rlVars, searchVars, lastOp, apiVars, cancelVars, workerVars>>

\* pipeline.py:108-120, 140: invoke_worker_lambda queues the invocation
StartInvoke ==
    /\ apiPc = "stored"
    /\ wPc' = "queued"
    /\ apiPc' = "started"
    /\ startStatus' = 200
    /\ UNCHANGED <<rlVars, searchVars, jobItem, lastOp, reqLimited, pipeline_states,
                   progressResp, cancelVars, wStep,
                   invoked, raisedExc, cancelSeen, wTerminal, s3Keys,
                   emailSent>>

\* pipeline.py:121-138: invoke_worker_lambda raises
StartInvokeFail ==
    /\ apiPc = "stored"
    /\ jobItem' = SetStatus(jobItem, "error", "none", "Failed to start pipeline")
    /\ apiPc' = "failed"
    /\ startStatus' = 500
    /\ UNCHANGED <<rlVars, searchVars, lastOp, reqLimited, pipeline_states, progressResp,
                   cancelVars, workerVars>>

\* pipeline.py:121-138, state_manager.py:637-641, 680-692:
\* invoke_worker_lambda raises and the update_job_status(job_id, "error")
\* of the handler fails in the store, which update_job_status logs
StartInvokeFailFault ==
    /\ apiPc = "stored"
    /\ apiPc' = "failed"
    /\ startStatus' = 500
    /\ UNCHANGED <<rlVars, searchVars, jobItem, lastOp, reqLimited,
                   pipeline_states, progressResp, cancelVars, workerVars>>

\* pipeline.py:273-274, state_helpers.py:38-44: the job is not found
CancelNotFound ==
    /\ cPc = "idle"
    /\ cancelsMade < MaxCancels
    /\ \E i \in Instances : GetJobStateWithFallback(i, TRUE) = "none"
    /\ cancelsMade' = cancelsMade + 1
    /\ UNCHANGED <<rlVars, searchVars, jobItem, lastOp, apiVars, cPc, cancelAt, workerVars>>

\* pipeline.py:273-274: cancel_pipeline finds the job
CancelRead ==
    /\ cPc = "idle"
    /\ cancelsMade < MaxCancels
    /\ \E i \in Instances : GetJobStateWithFallback(i, TRUE) # "none"
    /\ cancelsMade' = cancelsMade + 1
    /\ cPc' = "write"
    /\ UNCHANGED <<rlVars, searchVars, jobItem, lastOp, apiVars, cancelAt, workerVars>>

\* pipeline.py:278-294: update_job_status(job_id, "cancelling")
CancelWrite ==
    /\ cPc = "write"
    /\ jobItem' = SetStatus(jobItem, "cancelling", "none", "none")
    /\ cancelAt' = IF jobItem.status = "running" /\ cancelAt.pc = "none"
                   THEN [pc |-> wPc, step |-> wStep]
                   ELSE cancelAt
    /\ cPc' = "idle"
    /\ UNCHANGED <<rlVars, searchVars, lastOp, apiVars, cancelsMade, workerVars>>

(***************************************************************************)
(* The worker: lambda_worker.py worker_handler running jobsai/main.py.     *)
(***************************************************************************)

\* main() raises exc to worker_handler
Raise(exc) ==
    /\ raisedExc' = exc
    /\ wPc' = IF exc = "CancellationError" THEN "except_cancel"
              ELSE "except_error"

\* main.py:42-71: what leaves the @pipeline_step wrapper when the wrapped
\* body raises exc ("except Exception" catches every exception class)
Wrapped(exc) == "RuntimeError"

\* lambda_worker.py:141-198, main.py:111-155: the invocation starts, main()
\* initializes the agents
WorkerStart ==
    /\ wPc = "queued"
    /\ \/ /\ wPc' = "precheck"
          /\ wStep' = 1
          /\ UNCHANGED raisedExc
       \/ /\ Raise("RuntimeError")
          /\ UNCHANGED wStep
    /\ UNCHANGED <<rlVars, searchVars, jobItem, lastOp, apiVars, cancelVars, invoked,
                   cancelSeen, wTerminal, s3Keys, emailSent>>

\* main.py:158, 198, 217, 237, 262, 283: the check before a step, outside
\* the wrapper
PreCheck ==
    /\ wPc = "precheck"
    /\ \/ /\ GetCancellationFlag(jobItem)
          /\ cancelSeen' = "pre"
          /\ Raise("CancellationError")
       \/ /\ ~GetCancellationFlag(jobItem)
          /\ wPc' = IF wStep = 1 THEN "progress" ELSE "bodycheck"
          /\ UNCHANGED <<raisedExc, cancelSeen>>
    /\ UNCHANGED <<rlVars, searchVars, jobItem, lastOp, apiVars, cancelVars, wStep, invoked,
                   wTerminal, s3Keys, emailSent>>

\* The callback is skipped.
Progress_NoWrite ==
    /\ wPc = "progress"
    /\ wPc' = IF wStep = 1 THEN "bodycheck" ELSE "precheck"
    /\ UNCHANGED <<rlVars, searchVars, jobItem, lastOp, apiVars, cancelVars,
                   wStep, invoked, raisedExc, cancelSeen, wTerminal, s3Keys,
                   emailSent>>

\* main.py:166-170, 214-215, 234-235, 259-260, 280-281 and
\* lambda_worker.py:177-188: progress_callback
Progress ==
    /\ wPc = "progress"
    /\ jobItem' = SetProgress(jobItem, Phase[wStep])
    /\ wPc' = IF wStep = 1 THEN "bodycheck" ELSE "precheck"
    /\ UNCHANGED <<rlVars, searchVars, lastOp, apiVars, cancelVars, wStep, invoked,
                   raisedExc, cancelSeen, wTerminal, s3Keys, emailSent>>

\* main.py:180, 203, 222, 242, 267, 288: the check at the top of the wrapped
\* step body
BodyCheck ==
    /\ wPc = "bodycheck"
    /\ \/ /\ GetCancellationFlag(jobItem)
          /\ cancelSeen' = "body"
          /\ Raise(Wrapped("CancellationError"))
       \/ /\ ~GetCancellationFlag(jobItem)
          /\ wPc' = "work"
          /\ UNCHANGED <<raisedExc, cancelSeen>>
    /\ UNCHANGED <<rlVars, searchVars, jobItem, lastOp, apiVars, cancelVars, wStep, invoked,
                   wTerminal, s3Keys, emailSent>>

\* main.py:184, 205, 225, 245, 270, 290: the agent of the step is called;
\* steps 3, 4 and 5 hand cancellation_check to the agent
Work ==
    /\ wPc = "work"
    /\ invoked' = invoked \cup {wStep}
    /\ wPc' = IF wStep \in {3, 4, 5} THEN "inwork" ELSE "endwork"
    /\ UNCHANGED <<rlVars, searchVars, jobItem, lastOp, apiVars, cancelVars, wStep,
                   raisedExc, cancelSeen, wTerminal, s3Keys, emailSent>>

\* searcher.py:107-119, 236-241, scrapers/base.py:72-74, 207-209: a check
\* inside the agent raises CancellationError through the wrapper
InnerCheck ==
    /\ wPc = "inwork"
    /\ \/ /\ GetCancellationFlag(jobItem)
          /\ cancelSeen' = "inner"
          /\ Raise(Wrapped("CancellationError"))
       \/ /\ ~GetCancellationFlag(jobItem)
          /\ wPc' = "endwork"
          /\ UNCHANGED <<raisedExc, cancelSeen>>
    /\ UNCHANGED <<rlVars, searchVars, jobItem, lastOp, apiVars, cancelVars, wStep, invoked,
                   wTerminal, s3Keys, emailSent>>

\* The scoring step is left out.
EndWork_SkipsScoring ==
    /\ wPc = "endwork"
    /\ \/ /\ wPc' = IF wStep = 6 THEN "store_docs"
                    ELSE IF wStep = 1 THEN "precheck" ELSE "progress"
          /\ wStep' = IF wStep = 6 THEN 6
                      ELSE IF wStep = 3 THEN 5 ELSE wStep + 1
          /\ UNCHANGED raisedExc
       \/ /\ Raise(Wrapped("Exception"))
          /\ UNCHANGED wStep
    /\ UNCHANGED <<rlVars, searchVars, jobItem, lastOp, apiVars, cancelVars, invoked,
                   cancelSeen, wTerminal, s3Keys, emailSent>>

\* main.py:57-67: the agent returns, or raises and the wrapper re-raises
EndWork ==
    /\ wPc = "endwork"
    /\ \/ /\ wPc' = IF wStep = 6 THEN "store_docs"
                    ELSE IF wStep = 1 THEN "precheck" ELSE "progress"
          /\ wStep' = IF wStep = 6 THEN 6 ELSE wStep + 1
          /\ UNCHANGED raisedExc
       \/ /\ Raise(Wrapped("Exception"))
          /\ UNCHANGED wStep
    /\ UNCHANGED <<rlVars, searchVars, jobItem, lastOp, apiVars, cancelVars, invoked,
                   cancelSeen, wTerminal, s3Keys, emailSent>>

\* lambda_worker.py:46-108, 200-202: store_document_in_s3 returns a key or
\* None
StoreDocuments ==
    /\ wPc = "store_docs"
    /\ \E ok \in BOOLEAN : s3Keys' = ok
    /\ wPc' = "deliver"
    /\ UNCHANGED <<rlVars, searchVars, jobItem, lastOp, apiVars, cancelVars, wStep, invoked,
                   raisedExc, cancelSeen, wTerminal, emailSent>>

\* main.py:295-299, lambda_worker.py:63-67, 89-94, 213-216: main() returns one
\* "document" with one "filename", so s3_keys holds at most one key and
\* filenames exactly one name
NumKeys == IF s3Keys THEN 1 ELSE 0
NumFilenames == 1

SendCoverLettersEmail_RaisesOnFailure(keys, filenames, outcome) ==
    IF keys # filenames \/ outcome = "failed" THEN "raised" ELSE outcome

\* email_service.py:35-231, send_cover_letters_email: raises ValueError when
\* the two lists differ in length; otherwise returns True ("sent"), or False
\* ("failed") when email is disabled or unconfigured, or SES fails
SendCoverLettersEmail(keys, filenames, outcome) ==
    IF keys # filenames THEN "raised" ELSE outcome

\* lambda_worker.py:204-256: the delivery method is read from the job item;
\* the email is sent when it is "email", an address is stored and s3_keys is
\* not empty
Deliver ==
    /\ wPc = "deliver"
    /\ \/ /\ ~(jobItem.delivery_method = "email" /\ jobItem.email # "absent"
               /\ s3Keys)
          /\ wPc' = "complete"
          /\ UNCHANGED <<emailSent, raisedExc>>
       \/ /\ jobItem.delivery_method = "email" /\ jobItem.email # "absent" /\ s3Keys
          /\ \E outcome \in {"sent", "failed"} :
                emailSent' = SendCoverLettersEmail(NumKeys, NumFilenames, outcome)
          /\ IF emailSent' = "raised"
             THEN Raise("ValueError")
             ELSE wPc' = "complete" /\ UNCHANGED raisedExc
    /\ UNCHANGED <<rlVars, searchVars, jobItem, lastOp, apiVars, cancelVars, wStep, invoked,
                   cancelSeen, wTerminal, s3Keys>>

\* The handler carries on into its "except Exception" branch after the
\* write of complete.
WriteComplete_ThenExcept ==
    /\ wPc = "complete"
    /\ jobItem' = SetStatus(jobItem, "complete", "result_data", "none")
    /\ wTerminal' = "complete"
    /\ wPc' = "except_error"
    /\ UNCHANGED <<rlVars, searchVars, lastOp, apiVars, cancelVars, wStep, invoked,
                   raisedExc, cancelSeen, s3Keys, emailSent>>

\* lambda_worker.py:257-269
WriteComplete ==
    /\ wPc = "complete"
    /\ jobItem' = SetStatus(jobItem, "complete", "result_data", "none")
    /\ wTerminal' = "complete"
    /\ wPc' = "done"
    /\ UNCHANGED <<rlVars, searchVars, lastOp, apiVars, cancelVars, wStep, invoked,
                   raisedExc, cancelSeen, s3Keys, emailSent>>

\* lambda_worker.py:271-277: except CancellationError
ExceptCancellation ==
    /\ wPc = "except_cancel"
    /\ jobItem' = SetStatus(jobItem, "cancelled", "none", "none")
    /\ wTerminal' = "cancelled"
    /\ wPc' = "done"
    /\ UNCHANGED <<rlVars, searchVars, lastOp, apiVars, cancelVars, wStep, invoked,
                   raisedExc, cancelSeen, s3Keys, emailSent>>

ExceptError_GenericMessage ==
    /\ wPc = "except_error"
    /\ jobItem' = SetStatus(jobItem, "error", "none", "failed")
    /\ wTerminal' = "error"
    /\ wPc' = "done"
    /\ UNCHANGED <<rlVars, searchVars, lastOp, apiVars, cancelVars, wStep, invoked,
                   raisedExc, cancelSeen, s3Keys, emailSent>>

\* lambda_worker.py:279-293: except Exception
ExceptError ==
    /\ wPc = "except_error"
    /\ jobItem' = SetStatus(jobItem, "error", "none",
                         IF wStep \in 1..6 /\ emailSent # "raised"
                         THEN StepName[wStep] ELSE "failed")
    /\ wTerminal' = "error"
    /\ wPc' = "done"
    /\ UNCHANGED <<rlVars, searchVars, lastOp, apiVars, cancelVars, wStep, invoked,
                   raisedExc, cancelSeen, s3Keys, emailSent>>

JobNext ==
    \/ RateLimitMiddleware
    \/ StartStore
    \/ StartInvoke
    \/ StartInvokeFail
    \/ CancelNotFound
    \/ CancelRead
    \/ CancelWrite
    \/ WorkerStart
    \/ PreCheck
    \/ Progress
    \/ BodyCheck
    \/ Work
    \/ InnerCheck
    \/ EndWork
    \/ StoreDocuments
    \/ Deliver
    \/ WriteComplete
    \/ ExceptCancellation
    \/ ExceptError

\* lambda_worker.py:141-293: the steps of the worker invocation
WorkerNext ==
    \/ WorkerStart
    \/ PreCheck
    \/ Progress
    \/ BodyCheck
    \/ Work
    \/ InnerCheck
    \/ EndWork
    \/ StoreDocuments
    \/ Deliver
    \/ WriteComplete
    \/ ExceptCancellation
    \/ ExceptError

\* pipeline.py:108-140: the end of start_pipeline
StartEnd == StartInvoke \/ StartInvokeFail

\* The queued worker invocation runs and each of its steps terminates; a
\* request handler that has begun runs to its end.
JobFairness ==
    /\ WF_vars(WorkerNext)
    /\ WF_vars(StartEnd)
    /\ WF_vars(CancelWrite)

(***************************************************************************)
(* The searcher: jobsai/agents/searcher.py.  A listing is a dict of which  *)
(* the model keeps "url" and "title"; the url "" stands for every falsy    *)
(* url (missing key, None, empty string).                                  *)
(***************************************************************************)

MaxLen == 3

Urls == {"", "u1", "u2"}
Titles == {"a", "b"}
Listings == [url : Urls, title : Titles]
JobLists == UNION {[1..n -> Listings] : n \in 0..MaxLen}

KeepJob_AnyUrl(job, seen_urls) == job.url \notin seen_urls

\* searcher.py:342: "if url and url not in seen_urls"
KeepJob(job, seen_urls) == job.url # "" /\ job.url \notin seen_urls

\* searcher.py:336-344: the loop of _deduplicate_jobs from position i on,
\* with the seen_urls and the deduped list built so far
RECURSIVE DedupLoop(_, _, _, _)
DedupLoop(jobs, i, seen_urls, acc) ==
    IF i > Len(jobs) THEN acc
    ELSE IF KeepJob(jobs[i], seen_urls)
         THEN DedupLoop(jobs, i + 1, seen_urls \cup {jobs[i].url},
                        Append(acc, jobs[i]))
         ELSE DedupLoop(jobs, i + 1, seen_urls, acc)

\* a variant whose loop starts at the second listing
DeduplicateJobs_FromSecond(jobs) == DedupLoop(jobs, 2, {}, <<>>)

\* searcher.py:320-355, SearcherService._deduplicate_jobs
DeduplicateJobs(jobs) == DedupLoop(jobs, 1, {}, <<>>)

\* searcher.py:127: search_jobs returns self._deduplicate_jobs(all_jobs)
Deduplicate ==
    /\ dedupPc = "ready"
    /\ deduped' = DeduplicateJobs(all_jobs)
    /\ dedupPc' = "done"
    /\ UNCHANGED <<rlVars, jobItem, lastOp, apiVars, cancelVars, workerVars,
                   all_jobs, futures, results, fanPc, searchRest>>

\* any list of listings is about to be deduplicated
DedupInit ==
    /\ RlInit
    /\ jobItem = AbsentItem
    /\ JobStateInit
    /\ FanIdle
    /\ SearchIdle
    /\ ScrapeIdle
    /\ FetchIdle
    /\ all_jobs \in JobLists
    /\ deduped = <<>>
    /\ dedupPc = "ready"

DedupNext == Deduplicate

SpecDedup == DedupInit /\ [][DedupNext]_vars

\* what the scraper of board b may return for the query: nothing, or the
\* board's listings; two boards carry one posting under the same url with
\* their own titles, and a board may carry a listing without a url
BoardResults(b) ==
    IF b % 2 = 1
    THEN { <<>>,
           <<[url |-> "u1", title |-> "a"], [url |-> "u2", title |-> "b"]>> }
    ELSE { <<>>,
           <<[url |-> "u2", title |-> "a"], [url |-> "", title |-> "a"]>> }

\* searcher.py:220-232: a worker thread of the pool takes the task of board
\* b from the queue and starts it
TaskStart(b) ==
    /\ futures[b].state = "pending"
    /\ futures' = [futures EXCEPT ![b].state = "running"]
    /\ UNCHANGED <<rlVars, jobItem, lastOp, apiVars, cancelVars, workerVars,
                   all_jobs, deduped, dedupPc, results, fanPc, searchRest>>

\* searcher.py:133-190, _scrape_single_board returns (job_board, jobs)
TaskReturn(b) ==
    /\ futures[b].state = "running"
    /\ \E jobs \in BoardResults(b) :
          futures' = [futures EXCEPT ![b] = [state |-> "returned",
                                            jobs |-> jobs,
                                            collected |-> FALSE]]
    /\ UNCHANGED <<rlVars, jobItem, lastOp, apiVars, cancelVars, workerVars,
                   all_jobs, deduped, dedupPc, results, fanPc, searchRest>>

\* searcher.py:165-182: the scraper of the board raises an exception that is
\* not CancellationError
TaskRaise(b) ==
    /\ futures[b].state = "running"
    /\ futures' = [futures EXCEPT ![b].state = "raised"]
    /\ UNCHANGED <<rlVars, jobItem, lastOp, apiVars, cancelVars, workerVars,
                   all_jobs, deduped, dedupPc, results, fanPc, searchRest>>

\* scrapers/base.py:72-74, 207-209: cancellation_check() returned True inside
\* the scraper, which raises CancellationError
TaskCancelled(b) ==
    /\ futures[b].state = "running"
    /\ GetCancellationFlag(jobItem)
    /\ futures' = [futures EXCEPT ![b].state = "cancelled"]
    /\ observedBy' = observedBy \cup {"task"}
    /\ UNCHANGED <<rlVars, jobItem, lastOp, apiVars, cancelVars, workerVars,
                   scrapeVars, fetchVars,
                   all_jobs, deduped, dedupPc, results, fanPc, searchPc,
                   queryNo>>

AppendResult_SkipsFailed(res, b) ==
    IF futures[b].state = "raised" THEN res
    ELSE Append(res, [board |-> b, jobs |-> futures[b].jobs])

\* searcher.py:245-253, 258-268: results.append((board_name, jobs)), with an
\* empty list for a board whose task raised
AppendResult(res, b) ==
    Append(res, [board |-> b,
                 jobs |-> IF futures[b].state = "raised" THEN <<>>
                          ELSE futures[b].jobs])

\* searcher.py:239-240, 254-256: "for f in future_to_board: f.cancel()"
\* cancels the tasks that no thread has started; a running or finished task
\* is left as it is
CancelFutures(fs) ==
    [c \in Boards |->
        IF fs[c].state = "pending"
        THEN [fs[c] EXCEPT !.state = "never_started"]
        ELSE fs[c]]

\* searcher.py:234-268: as_completed yields the finished task of board b; the
\* collector checks for cancellation, then takes the task's outcome; a
\* CancellationError is raised inside the "with" block of the pool
Collect(b) ==
    /\ fanPc = "collecting"
    /\ futures[b].state \in {"returned", "raised", "cancelled"}
    /\ ~futures[b].collected
    /\ IF GetCancellationFlag(jobItem) \/ futures[b].state = "cancelled"
       THEN /\ futures' = CancelFutures([futures EXCEPT ![b].collected = TRUE])
            /\ fanPc' = "unwinding"
            /\ UNCHANGED results
       ELSE /\ futures' = [futures EXCEPT ![b].collected = TRUE]
            /\ results' = AppendResult(results, b)
            /\ UNCHANGED fanPc
    /\ observedBy' = IF GetCancellationFlag(jobItem)
                     THEN observedBy \cup {"collector"} ELSE observedBy
    /\ UNCHANGED <<rlVars, jobItem, lastOp, apiVars, cancelVars, workerVars,
                   scrapeVars, fetchVars,
                   all_jobs, deduped, dedupPc, searchPc, queryNo>>

\* The exception leaves the pool's block without waiting for its tasks.
PoolShutdown_NoWait ==
    /\ fanPc = "unwinding"
    /\ fanPc' = "cancelled"
    /\ UNCHANGED <<rlVars, jobItem, lastOp, apiVars, cancelVars, workerVars,
                   all_jobs, deduped, dedupPc, futures, results, searchRest>>

\* searcher.py:220: the CancellationError leaves the block of "with
\* ThreadPoolExecutor(...) as executor", whose exit is shutdown(wait=True):
\* it returns when no task of the pool is running
PoolShutdown ==
    /\ fanPc = "unwinding"
    /\ \A b \in Boards : futures[b].state \notin {"pending", "running"}
    /\ fanPc' = "cancelled"
    /\ UNCHANGED <<rlVars, jobItem, lastOp, apiVars, cancelVars, workerVars,
                   all_jobs, deduped, dedupPc, futures, results, searchRest>>

\* searcher.py:270: every task has been collected; return results
FanReturn ==
    /\ fanPc = "collecting"
    /\ \A b \in Boards : futures[b].collected
    /\ fanPc' = "returned"
    /\ UNCHANGED <<rlVars, jobItem, lastOp, apiVars, cancelVars, workerVars,
                   all_jobs, deduped, dedupPc, futures, results, searchRest>>

\* searcher.py:217-232: the job is running and one task per board has been
\* submitted to the pool
FanInit ==
    /\ RlInit
    /\ jobItem = JobItem(AbsentItem,
                         InitialState(0, [delivery_method |-> "none",
                                          email |-> "none"]), 0)
    /\ JobStateInit
    /\ DedupIdle
    /\ futures = [b \in Boards |->
                    [state |-> "pending", jobs |-> <<>>, collected |-> FALSE]]
    /\ results = <<>>
    /\ fanPc = "collecting"
    /\ SearchIdle
    /\ ScrapeIdle
    /\ FetchIdle

\* One query's fan-out over the boards, with cancellation requests.
FanNext ==
    \/ \E b \in Boards : TaskStart(b)
    \/ \E b \in Boards : TaskReturn(b)
    \/ \E b \in Boards : TaskRaise(b)
    \/ \E b \in Boards : TaskCancelled(b)
    \/ \E b \in Boards : Collect(b)
    \/ PoolShutdown
    \/ FanReturn
    \/ CancelRead
    \/ CancelWrite

SpecFan == FanInit /\ [][FanNext]_vars

\* the length of the keywords list of one search_jobs call
NumQueries == 2

\* searcher.py:121-124: all_jobs.extend(jobs) for each (job_board, jobs) of
\* query_results, from position k on
RECURSIVE ExtendAll(_, _, _)
ExtendAll(acc, res, k) ==
    IF k > Len(res) THEN acc
    ELSE ExtendAll(acc \o res[k].jobs, res, k + 1)

\* searcher.py:105-115, 217-232: the check before a query; then one task per
\* board is submitted to the pool
QueryCheck ==
    /\ searchPc = "query_check"
    /\ IF GetCancellationFlag(jobItem)
       THEN /\ searchPc' = "cancelled"
            /\ observedBy' = observedBy \cup {"before"}
            /\ UNCHANGED <<futures, results, fanPc>>
       ELSE /\ searchPc' = "fanout"
            /\ futures' = [b \in Boards |->
                             [state |-> "pending", jobs |-> <<>>,
                              collected |-> FALSE]]
            /\ results' = <<>>
            /\ fanPc' = "collecting"
            /\ UNCHANGED observedBy
    /\ UNCHANGED <<rlVars, jobItem, lastOp, apiVars, cancelVars, workerVars,
                   scrapeVars, fetchVars,
                   all_jobs, deduped, dedupPc, queryNo>>

FanPropagate_ReturnsPartial ==
    /\ searchPc = "fanout"
    /\ fanPc = "cancelled"
    /\ all_jobs' = ExtendAll(all_jobs, results, 1)
    /\ searchPc' = "dedup"
    /\ UNCHANGED <<rlVars, jobItem, lastOp, apiVars, cancelVars, workerVars,
                   scrapeVars, fetchVars,
                   deduped, dedupPc, futures, results, fanPc, queryNo,
                   observedBy>>

\* searcher.py:112-115: the CancellationError of _scrape_boards_parallel
\* leaves search_jobs, which has no handler
FanPropagate ==
    /\ searchPc = "fanout"
    /\ fanPc = "cancelled"
    /\ searchPc' = "cancelled"
    /\ UNCHANGED <<rlVars, jobItem, lastOp, apiVars, cancelVars, workerVars,
                   scrapeVars, fetchVars,
                   all_jobs, deduped, dedupPc, futures, results, fanPc,
                   queryNo, observedBy>>

\* searcher.py:116-124: the check after the fan-out, then the results of the
\* query are added to all_jobs and the loop goes to the next query
AfterCheck ==
    /\ searchPc = "fanout"
    /\ fanPc = "returned"
    /\ IF GetCancellationFlag(jobItem)
       THEN /\ searchPc' = "cancelled"
            /\ observedBy' = observedBy \cup {"after"}
            /\ UNCHANGED <<all_jobs, queryNo, fanPc>>
       ELSE /\ all_jobs' = ExtendAll(all_jobs, results, 1)
            /\ queryNo' = queryNo + 1
            /\ searchPc' = IF queryNo = NumQueries THEN "dedup"
                           ELSE "query_check"
            /\ fanPc' = "idle"
            /\ UNCHANGED observedBy
    /\ UNCHANGED <<rlVars, jobItem, lastOp, apiVars, cancelVars, workerVars,
                   scrapeVars, fetchVars,
                   deduped, dedupPc, futures, results>>

\* searcher.py:126-127: return self._deduplicate_jobs(all_jobs)
SearchReturn ==
    /\ searchPc = "dedup"
    /\ deduped' = DeduplicateJobs(all_jobs)
    /\ searchPc' = "returned"
    /\ UNCHANGED <<rlVars, jobItem, lastOp, apiVars, cancelVars, workerVars,
                   scrapeVars, fetchVars,
                   all_jobs, dedupPc, futures, results, fanPc, queryNo,
                   observedBy>>

\* searcher.py:100-105: the job is running and search_jobs is about to
\* search its first query
SearchInit ==
    /\ RlInit
    /\ jobItem = JobItem(AbsentItem,
                         InitialState(0, [delivery_method |-> "none",
                                          email |-> "none"]), 0)
    /\ JobStateInit
    /\ DedupIdle
    /\ FanIdle
    /\ searchPc = "query_check"
    /\ queryNo = 1
    /\ observedBy = {}
    /\ ScrapeIdle
    /\ FetchIdle

\* One search_jobs call over NumQueries queries, with cancellation requests.
SearchNext ==
    \/ QueryCheck
    \/ \E b \in Boards : TaskStart(b)
    \/ \E b \in Boards : TaskReturn(b)
    \/ \E b \in Boards : TaskRaise(b)
    \/ \E b \in Boards : TaskCancelled(b)
    \/ \E b \in Boards : Collect(b)
    \/ PoolShutdown
    \/ FanReturn
    \/ FanPropagate
    \/ AfterCheck
    \/ SearchReturn
    \/ CancelRead
    \/ CancelWrite

SpecSearch == SearchInit /\ [][SearchNext]_vars

(***************************************************************************)
(* The scraper: utils/scrapers/base.py scrape_jobs, one call for one query *)
(* on one board.                                                           *)
(***************************************************************************)

\* the largest num_pages a call is given
MaxPages == 3

\* the largest per_page_limit a call is given
MaxLimit == 3

\* configs.py:87, 109, 140: pagination_threshold of the board's config,
\* scaled down
PaginationThreshold == 2

\* the numbers of job cards a fetched search page can hold: none, fewer
\* than pagination_threshold, a full page
CardCounts == {0, PaginationThreshold - 1, PaginationThreshold}

\* base.py:103-139: what the fetch of a search page comes back with: a 200
\* response, no response at all, a response with another status
PageOutcomes == {"ok", "none", "non200"}

\* base.py:214-243, 567-575: what the fetch of a detail page comes back
\* with: the description text, nothing usable, an exception
DetailOutcomes == {"text", "failed", "raised"}

\* base.py:212, 383-470: the url a parsed card carries, "" when the card
\* has no link
CardUrls == {"", "u"}

\* An exception of the detail fetch leaves the key unset.
FullDescription_RaiseLeavesUnset(deep_mode, url, outcome) ==
    IF deep_mode /\ url # "" /\ outcome = "text" THEN "text"
    ELSE IF deep_mode /\ url # "" /\ outcome = "raised" THEN "unset"
    ELSE ""

\* base.py:214-243: the full_description of a parsed card
FullDescription(deep_mode, url, outcome) ==
    IF deep_mode /\ url # "" /\ outcome = "text" THEN "text" ELSE ""

\* The limit is compared with ">".
LimitReached_OneLate(per_page_limit, total_fetched) ==
    /\ per_page_limit # None
    /\ total_fetched > per_page_limit

\* base.py:252-255: "if per_page_limit and total_fetched >= per_page_limit"
LimitReached(per_page_limit, total_fetched) ==
    /\ per_page_limit # None
    /\ total_fetched >= per_page_limit

\* The page count is never compared with the threshold.
LastPage_Never(cards) == FALSE

\* base.py:261-263: "if len(job_cards) < config.pagination_threshold: break"
LastPage(cards) == cards < PaginationThreshold

\* base.py:26-66: scrape_jobs is called while the job is running
ScrapeInit ==
    /\ RlInit
    /\ jobItem = JobItem(AbsentItem,
                         InitialState(0, [delivery_method |-> "none",
                                          email |-> "none"]), 0)
    /\ JobStateInit
    /\ DedupIdle
    /\ FanIdle
    /\ SearchIdle
    /\ scParams \in [num_pages : 1..MaxPages,
                     per_page_limit : {None} \cup (1..MaxLimit),
                     deep_mode : BOOLEAN]
    /\ scPc = "page_check"
    /\ scPage = 1
    /\ scCards = 0
    /\ scCard = 0
    /\ scResults = <<>>
    /\ scFetched = <<>>
    /\ FetchIdle

\* Cancellation is checked before the first page only.
PageCheck_FirstPageOnly ==
    /\ scPc = "page_check"
    /\ scPc' = IF GetCancellationFlag(jobItem) /\ scPage = 1
               THEN "cancelled" ELSE "fetch"
    /\ UNCHANGED <<rlVars, jobItem, lastOp, apiVars, cancelVars, workerVars,
                   all_jobs, deduped, dedupPc, futures, results, fanPc,
                   orchVars, fetchVars, scParams, scPage, scCards, scCard,
                   scResults, scFetched>>

\* base.py:68-73: the cancellation check before a page is fetched
PageCheck ==
    /\ scPc = "page_check"
    /\ scPc' = IF GetCancellationFlag(jobItem) THEN "cancelled" ELSE "fetch"
    /\ UNCHANGED <<rlVars, jobItem, lastOp, apiVars, cancelVars, workerVars,
                   all_jobs, deduped, dedupPc, futures, results, fanPc,
                   orchVars, fetchVars, scParams, scPage, scCards, scCard,
                   scResults,
                   scFetched>>

\* A page that could not be fetched is skipped and the next one tried.
UseResponse_SkipsFailedPage(outcome) ==
    /\ scPc = "fetch"
    /\ \E n \in CardCounts :
        /\ outcome # "ok" => n = 0
        /\ scFetched' = Append(scFetched,
                               [page |-> scPage, outcome |-> outcome,
                                cards |-> n])
        /\ scCards' = n
        /\ IF outcome = "ok" /\ n > 0
           THEN /\ scPc' = "card"
                /\ scCard' = 1
                /\ UNCHANGED scPage
           ELSE IF outcome # "ok" /\ scPage < scParams.num_pages
           THEN /\ scPc' = "page_check"
                /\ scPage' = scPage + 1
                /\ UNCHANGED scCard
           ELSE /\ scPc' = "returned"
                /\ UNCHANGED <<scCard, scPage>>
    /\ UNCHANGED <<rlVars, jobItem, lastOp, apiVars, cancelVars, workerVars,
                   all_jobs, deduped, dedupPc, futures, results, fanPc,
                   orchVars, scParams, scResults>>

\* base.py:103-202: what scrape_jobs does with the result of _fetch_page:
\* no response and a status other than 200 end the loop, and so does a 200
\* page on which the selector finds no job card
UseResponse(outcome) ==
    /\ scPc = "fetch"
    /\ \E n \in CardCounts :
        /\ outcome # "ok" => n = 0
        /\ scFetched' = Append(scFetched,
                               [page |-> scPage, outcome |-> outcome,
                                cards |-> n])
        /\ scCards' = n
        /\ IF outcome = "ok" /\ n > 0
           THEN /\ scPc' = "card"
                /\ scCard' = 1
           ELSE /\ scPc' = "returned"
                /\ UNCHANGED scCard
    /\ UNCHANGED <<rlVars, jobItem, lastOp, apiVars, cancelVars, workerVars,
                   all_jobs, deduped, dedupPc, futures, results, fanPc,
                   orchVars, scParams, scPage, scResults>>

\* base.py:75-202: the search page is fetched and its job cards selected
FetchPage ==
    /\ \E outcome \in PageOutcomes : UseResponse(outcome)
    /\ UNCHANGED fetchVars

\* base.py:204-255: one job card: the cancellation check, the parse, the
\* detail page in deep mode, the append, the per_page_limit check
ProcessCard ==
    /\ scPc = "card"
    /\ IF GetCancellationFlag(jobItem)
       THEN /\ scPc' = "cancelled"
            /\ UNCHANGED <<scCard, scResults>>
       ELSE \E url \in CardUrls, outcome \in DetailOutcomes :
            LET fetched == scParams.deep_mode /\ url # ""
                job == [page |-> scPage, card |-> scCard, url |-> url,
                        detail |-> IF fetched THEN outcome ELSE "none",
                        full_description |->
                            FullDescription(scParams.deep_mode, url, outcome)]
                total_fetched == Len(scResults) + 1
            IN  /\ scResults' = Append(scResults, job)
                /\ IF LimitReached(scParams.per_page_limit, total_fetched)
                   THEN /\ scPc' = "returned"
                        /\ UNCHANGED scCard
                   ELSE IF scCard < scCards
                   THEN /\ scCard' = scCard + 1
                        /\ UNCHANGED scPc
                   ELSE /\ scPc' = "end_page"
                        /\ UNCHANGED scCard
    /\ UNCHANGED <<rlVars, jobItem, lastOp, apiVars, cancelVars, workerVars,
                   all_jobs, deduped, dedupPc, futures, results, fanPc,
                   orchVars, fetchVars, scParams, scPage, scCards, scFetched>>

\* base.py:66, 257-267: the sleep after a page, the pagination_threshold
\* check, the next round of "for page in range(1, num_pages + 1)"
EndPage ==
    /\ scPc = "end_page"
    /\ IF LastPage(scCards) \/ scPage = scParams.num_pages
       THEN /\ scPc' = "returned"
            /\ UNCHANGED scPage
       ELSE /\ scPc' = "page_check"
            /\ scPage' = scPage + 1
    /\ UNCHANGED <<rlVars, jobItem, lastOp, apiVars, cancelVars, workerVars,
                   all_jobs, deduped, dedupPc, futures, results, fanPc,
                   orchVars, fetchVars, scParams, scCards, scCard, scResults,
                   scFetched>>

(***************************************************************************)
(* The fetch with retries: utils/scrapers/base.py _fetch_page, called by   *)
(* scrape_jobs for a search page.                                          *)
(***************************************************************************)

\* the largest retries a call is given
MaxRetries == 3

\* base.py:296-335: what one session.get comes back with: a response with
\* status 200, 429, 503 or another status, or a requests.RequestException
GetOutcomes == {"200", "429", "503", "other", "exception"}

\* Every status but 200 leads to another attempt.
Retried_EveryFailure(o) == o # "200"

\* base.py:300-315, 336-355: the outcomes after which the loop goes on
Retried(o) == o \in {"429", "503", "exception"}

\* base.py:103-139: how scrape_jobs reads the value _fetch_page returned
PageOutcome(result) ==
    IF result = "none" THEN "none"
    ELSE IF result = "200" THEN "ok" ELSE "non200"

\* base.py:99-103: scrape_jobs has passed the cancellation check of a page
\* and calls _fetch_page
FetchInit ==
    /\ RlInit
    /\ jobItem = JobItem(AbsentItem,
                         InitialState(0, [delivery_method |-> "none",
                                          email |-> "none"]), 0)
    /\ JobStateInit
    /\ DedupIdle
    /\ FanIdle
    /\ SearchIdle
    /\ scParams \in [num_pages : 1..MaxPages,
                     per_page_limit : {None} \cup (1..MaxLimit),
                     deep_mode : BOOLEAN]
    /\ scPc = "fetch"
    /\ scPage = 1
    /\ scCards = 0
    /\ scCard = 0
    /\ scResults = <<>>
    /\ scFetched = <<>>
    /\ fpRetries \in 0..MaxRetries
    /\ fpPc = "attempt"
    /\ fpGets = <<>>
    /\ fpResult = "none"
    /\ fpSleeps = <<>>

\* base.py:294-355: one round of "for attempt in range(1, retries + 1)"
Attempt ==
    /\ fpPc = "attempt"
    /\ Len(fpGets) < fpRetries
    /\ \E o \in GetOutcomes :
        LET attempt == Len(fpGets) + 1
        IN  /\ fpGets' = Append(fpGets, o)
            /\ fpResult' = IF o = "exception" THEN fpResult ELSE o
            /\ fpPc' = IF Retried(o) THEN "attempt" ELSE "returned"
            /\ fpSleeps' = IF Retried(o) /\ attempt < fpRetries
                           THEN Append(fpSleeps, attempt)
                           ELSE fpSleeps
    /\ UNCHANGED <<rlVars, jobItem, lastOp, apiVars, cancelVars, workerVars,
                   all_jobs, deduped, dedupPc, futures, results, fanPc,
                   orchVars, scrapeVars, fpRetries>>

\* base.py:294, 357-372: the loop is over; last_response is returned
AttemptsOver ==
    /\ fpPc = "attempt"
    /\ Len(fpGets) >= fpRetries
    /\ fpPc' = "returned"
    /\ UNCHANGED <<rlVars, jobItem, lastOp, apiVars, cancelVars, workerVars,
                   all_jobs, deduped, dedupPc, futures, results, fanPc,
                   orchVars, scrapeVars, fpRetries, fpGets, fpResult,
                   fpSleeps>>

\* base.py:103-202: scrape_jobs goes on with what _fetch_page returned
Fetched ==
    /\ fpPc = "returned"
    /\ UseResponse(PageOutcome(fpResult))
    /\ fpPc' = "idle"
    /\ UNCHANGED <<fpRetries, fpGets, fpResult, fpSleeps>>

\* One search-page fetch of scrape_jobs.
FetchNext ==
    \/ Attempt
    \/ AttemptsOver
    \/ Fetched

SpecFetch == FetchInit /\ [][FetchNext]_vars

\* One scrape_jobs call, with cancellation requests.
ScrapeNext ==
    \/ PageCheck
    \/ FetchPage
    \/ ProcessCard
    \/ EndPage
    \/ CancelRead
    \/ CancelWrite

SpecScrape == ScrapeInit /\ [][ScrapeNext]_vars

(***************************************************************************)
(* From the search to the scoring: main.py steps 3 and 4 over the listings *)
(* that the boards and queries of search_jobs yielded.                     *)
(***************************************************************************)

\* scorer.py:60-75: score_jobs returns None for an empty list and the
\* scored listings otherwise
ScoreJobs(raw_jobs) == IF raw_jobs = <<>> THEN "none" ELSE "scored"

\* main.py:220-226, searcher.py:121-124: the agent of step 3 is at work and
\* all_jobs holds the listings of every board and query
ScoreInit ==
    /\ RlInit
    /\ jobItem = SetProgress(
                    JobItem(AbsentItem,
                            InitialState(0, [delivery_method |-> "none",
                                             email |-> "none"]), 0),
                    Phase[3])
    /\ lastOp = NoOp
    /\ apiPc = "started"
    /\ reqLimited = FALSE
    /\ startStatus = 200
    /\ pipeline_states = [i \in Instances |->
                            IF i = "creator" THEN "running" ELSE "none"]
    /\ progressResp = [i \in Instances |-> NoResponse]
    /\ cPc = "idle"
    /\ cancelsMade = 0
    /\ cancelAt = [pc |-> "none", step |-> 0]
    /\ wPc = "inwork"
    /\ wStep = 3
    /\ invoked = {1, 2, 3}
    /\ raisedExc = "none"
    /\ cancelSeen = "none"
    /\ wTerminal = "none"
    /\ s3Keys = FALSE
    /\ emailSent = "none"
    /\ FanIdle
    /\ SearchIdle
    /\ ScrapeIdle
    /\ FetchIdle
    /\ all_jobs \in JobLists
    /\ deduped = <<>>
    /\ dedupPc = "ready"

\* main.py:242-252: the wrapped body of step 4 calls scorer.score_jobs with
\* the list search_jobs returned and raises ValueError when nothing was
\* scored
ScoreJobsCall ==
    /\ wPc = "inwork"
    /\ wStep = 4
    /\ IF ScoreJobs(deduped) = "none"
       THEN Raise(Wrapped("ValueError"))
       ELSE wPc' = "endwork" /\ UNCHANGED raisedExc
    /\ UNCHANGED <<rlVars, searchVars, jobItem, lastOp, apiVars, cancelVars,
                   wStep, invoked, cancelSeen, wTerminal, s3Keys, emailSent>>

\* Steps 3 and 4 of one run, with cancellation requests.
ScoreNext ==
    \/ wStep = 3 /\ InnerCheck
    \/ wPc = "endwork" /\ Deduplicate
    \/ wStep = 3 /\ dedupPc = "done" /\ EndWork
    \/ Progress
    \/ PreCheck
    \/ BodyCheck
    \/ Work
    \/ ScoreJobsCall
    \/ ExceptCancellation
    \/ ExceptError
    \/ CancelRead
    \/ CancelWrite

SpecScore == ScoreInit /\ [][ScoreNext]_vars

\* One call at a time: a call begins only when no other call is in flight.
BeginSeq(p) ==
    /\ \A q \in Callers : rlPc[q] = "idle"
    /\ Begin(p)

ClientUnavailableSeq(p) ==
    /\ \A q \in Callers : rlPc[q] = "idle"
    /\ ClientUnavailable(p)

Init == RlInit /\ JobInit

\* Concurrent callers, the store answers every operation.
RlNext ==
    \/ \E p \in Callers : Begin(p)
    \/ \E p \in Callers : UpdateItem(p)
    \/ \E p \in Callers : GetItem(p)
    \/ \E p \in Callers : ResetItem(p)
    \/ \E p \in Callers : PutItem(p)
    \/ \E p \in Callers : Finish(p)
    \/ Tick
    \/ Expire

SpecRL == Init /\ [][RlNext]_vars

\* Sequential callers, the store answers every operation.
SeqNext ==
    \/ \E p \in Callers : BeginSeq(p)
    \/ \E p \in Callers : UpdateItem(p)
    \/ \E p \in Callers : GetItem(p)
    \/ \E p \in Callers : ResetItem(p)
    \/ \E p \in Callers : PutItem(p)
    \/ \E p \in Callers : Finish(p)
    \/ Tick
    \/ Expire

SpecSeq == Init /\ [][SeqNext]_vars

\* Sequential callers, any store operation may fail.
FailNext ==
    \/ SeqNext
    \/ \E p \in Callers : ClientUnavailableSeq(p)
    \/ \E p \in Callers : UpdateItemFault(p)
    \/ \E p \in Callers : GetItemFault(p)
    \/ \E p \in Callers : ResetItemFault(p)
    \/ \E p \in Callers : PutItemFault(p)

SpecFail == Init /\ [][FailNext]_vars

\* The state manager called directly.
SpecStore == Init /\ [][StoreNext]_vars

\* The state manager called directly, any store operation may fail.
StoreFaultNext ==
    \/ \E d \in Deliveries : StoreJobStateCall(InitialState(now, d))
    \/ \E s \in {1, 3, 4, 5, 6} : UpdateJobProgressCall(Phase[s])
    \/ UpdateJobStatusCall("cancelling", "none", "none")
    \/ UpdateJobStatusCall("cancelled", "none", "none")
    \/ UpdateJobStatusCall("complete", "result_data", "none")
    \/ \E s \in 1..6 : UpdateJobStatusCall("error", "none", StepName[s])
    \/ \E d \in Deliveries : StoreJobStateUnavailable(InitialState(now, d))
    \/ \E d \in Deliveries : StoreJobStateFault(InitialState(now, d))
    \/ \E s \in {1, 3, 4, 5, 6} : UpdateJobProgressFault(Phase[s])
    \/ UpdateJobStatusFault("cancelling", "none", "none")
    \/ UpdateJobStatusFault("cancelled", "none", "none")
    \/ UpdateJobStatusFault("complete", "result_data", "none")
    \/ \E s \in 1..6 : UpdateJobStatusFault("error", "none", StepName[s])

SpecStoreFault == Init /\ [][StoreFaultNext]_vars

\* The API and one worker invocation on one job; the store answers every
\* operation.
SpecJob == Init /\ [][JobNext]_vars

\* The same, with a worker invocation that runs and handlers that finish.
SpecJobFair == Init /\ [][JobNext]_vars /\ JobFairness

\* GET /api/progress served by two API instances; the initial store may fail
\* and the table's TTL deletes the item.
ReadNext ==
    \/ RateLimitMiddleware
    \/ StartStore
    \/ StartStoreFault
    \/ StartInvoke
    \/ StartInvokeFail
    \/ StartInvokeFailFault
    \/ \E i \in Instances : GetProgress(i)
    \/ JobExpire
    \/ Tick

SpecRead == Init /\ [][ReadNext]_vars

\* The API in front of the rate limiter's record.
ApiNext ==
    \/ SeqNext
    \/ RateLimitMiddleware
    \/ StartStore
    \/ StartInvoke
    \/ StartInvokeFail

SpecApi == Init /\ [][ApiNext]_vars

\* Every action of the model.
Next ==
    \/ RlNext
    \/ FailNext
    \/ StoreNext
    \/ StoreFaultNext
    \/ JobNext
    \/ ReadNext
    \/ DedupNext
    \/ FanNext
    \/ SearchNext
    \/ ScrapeNext
    \/ FetchNext
    \/ ScoreNext

Spec == Init /\ [][Next]_vars

\* C1: for one identity and one window, the number of calls that return
\* allowed=True never exceeds RATE_LIMIT_REQUESTS, under every interleaving.
C1_AdmissionsWithinLimit ==
    \A w \in Windows : admitted[w] <= RATE_LIMIT_REQUESTS

\* C6: sequential calls: the k-th call of a window returns allowed=True with
\* remaining = N - k for k <= N, and allowed=False, remaining=0 for k > N,
\* always with reset_at = window_start + W; the first call of a later window
\* is its call number 1 and returns remaining = N - 1.
C6_SequentialBoundary ==
    \A p \in Callers :
        rlPc[p] = "done" =>
            LET w == rlWindow[p]
                k == callsIn[w]
            IN  rlResult[p] =
                    IF k <= RATE_LIMIT_REQUESTS
                    THEN Returned(TRUE, RATE_LIMIT_REQUESTS - k, ResetAt(w))
                    ELSE Returned(FALSE, 0, ResetAt(w))

\* the sixth call of a window that began after window 0 has been rejected
C6_Witness ==
    \E p \in Callers :
        /\ rlPc[p] = "done"
        /\ rlWindow[p] > 0
        /\ callsIn[rlWindow[p]] = RATE_LIMIT_REQUESTS + 1
        /\ ~rlResult[p].allowed
        /\ callsIn[0] > 0

\* C7: the stored count is always in 1..N, and every write that creates the
\* record or moves it to another window_start stores count = 1.
C7_CountInRange ==
    /\ [](rlItem.exists =>
            /\ rlItem.count >= 1
            /\ rlItem.count <= RATE_LIMIT_REQUESTS)
    /\ [][(/\ rlItem'.exists
           /\ \/ ~rlItem.exists
              \/ rlItem'.window_start # rlItem.window_start)
          => rlItem'.count = 1]_vars

\* a full record of an earlier window has been moved to a later window
C7_Witness ==
    /\ rlItem.exists
    /\ rlItem.window_start > 0
    /\ rlItem.count = 1
    /\ admitted[0] >= RATE_LIMIT_REQUESTS

\* C8: a call in which a store operation failed with something other than a
\* failed condition check (or that found no client) returns allowed=True and
\* does not raise.
C8_FailOpen ==
    \A p \in Callers :
        (rlPc[p] = "done" /\ rlFailed[p]) =>
            /\ rlResult[p].returned
            /\ rlResult[p].allowed
            /\ ~rlResult[p].raised

\* put_item failed for a call whose window was already full
C8_Witness ==
    \E p \in Callers :
        /\ rlPc[p] = "done"
        /\ rlFailed[p]
        /\ rlResult[p].remaining = None
        /\ rlItem.exists
        /\ rlItem.count = RATE_LIMIT_REQUESTS
        /\ rlItem.window_start = rlWindow[p]

\* C2: whenever the pipeline stops because a cancellation check returned True
\* (before a step, inside a wrapped step body, inside an agent), main() raises
\* CancellationError and the worker records terminal status cancelled.
C2_CancellationEndsCancelled ==
    (wPc = "done" /\ cancelSeen # "none") =>
        /\ raisedExc = "CancellationError"
        /\ wTerminal = "cancelled"

\* C3: a cancellation request sets status to cancelling only if the status is
\* running; on a terminal status it is a no-op and the record is unchanged.
C3_CancelOnlyWhenRunning ==
    [][(cPc = "write" /\ cPc' = "idle") =>
          /\ jobItem.status = "running" => jobItem'.status = "cancelling"
          /\ jobItem.status \in Terminal => jobItem' = jobItem]_vars

\* C4: once the stored status is complete, error or cancelled, no later
\* operation of the API or the worker changes it.
C4_TerminalIsFinal ==
    [][(jobItem.exists /\ jobItem.status \in Terminal)
          => jobItem'.status = jobItem.status]_vars

\* C5: a cancellation requested after step 2 returned and before the search
\* of step 3 is invoked ends with exactly steps 1 and 2 invoked and terminal
\* status cancelled.
C5_CancelBeforeSearch ==
    (/\ wPc = "done"
     /\ cancelAt.step = 3
     /\ cancelAt.pc \in {"progress", "precheck", "bodycheck"}) =>
        /\ invoked = {1, 2}
        /\ wTerminal = "cancelled"

\* C9: a POST /api/start of an identity whose limit is exhausted in the
\* current window is answered with 429 and never reaches the start handler:
\* no job is created and no worker is invoked.
C9_ExhaustedStartRejected ==
    reqLimited =>
        /\ apiPc = "rejected"
        /\ startStatus = 429
        /\ ~jobItem.exists
        /\ wPc = "none"

C11_ProgressWritesOnlyProgress ==
    [][(wPc = "progress" /\ wPc' # "progress") =>
          /\ jobItem'.progress = Phase[wStep]
          /\ jobItem'.status = jobItem.status
          /\ jobItem'.result = jobItem.result
          /\ jobItem'.error = jobItem.error
          /\ jobItem'.created_at = jobItem.created_at
          /\ jobItem'.ttl = jobItem.ttl
          /\ jobItem'.delivery_method = jobItem.delivery_method
          /\ jobItem'.email = jobItem.email]_vars

\* the cancellation request landed while the worker was about to report the
\* searching phase, and the phase has been written since
C11_Witness ==
    /\ cancelAt.pc = "progress"
    /\ cancelAt.step = 3
    /\ wPc = "precheck"
    /\ wStep = 3
    /\ jobItem.progress = "searching"
    /\ jobItem.status = "cancelling"

\* C12: a job-state write (store_job_state, update_job_progress,
\* update_job_status, the latter also being the cancellation request) during
\* which the store was unreachable or the store operation failed raises to
\* its caller.
C12_WritesFailLoudly ==
    lastOp.failed => lastOp.raised # "none"

\* C13: every successful write to the job item (store_job_state,
\* update_job_progress, update_job_status) leaves the item's ttl at the time
\* of the write plus the retention horizon.
C13_WriteRefreshesTtl ==
    [][(lastOp'.seq # lastOp.seq /\ ~lastOp'.failed) =>
          jobItem'.ttl = now + RetentionHorizon]_vars

\* C14: the job item has an error attribute only while its status is error.
C14_ErrorOnlyWhenError ==
    (jobItem.exists /\ jobItem.error # "absent") => jobItem.status = "error"

\* C15: two API instances that answer GET /api/progress for the same job
\* against the same stored item, with the same outcome of the store read,
\* give the same answer (the same status, or both 404): the instance's
\* pipeline_states never decides the response.
C15_SameAnswerFromEveryInstance ==
    \A i, j \in Instances :
        (/\ progressResp[i].code # 0
         /\ progressResp[j].code # 0
         /\ progressResp[i].item = progressResp[j].item
         /\ progressResp[i].ok = progressResp[j].ok) =>
            /\ progressResp[i].code = progressResp[j].code
            /\ progressResp[i].status = progressResp[j].status

\* main() stopped because the agent call of step wStep raised
StepFailed ==
    /\ wStep \in 1..6
    /\ raisedExc = "RuntimeError"
    /\ cancelSeen = "none"

\* C16: when the agent call of a step raises, main() raises RuntimeError
\* whose message names that step; the steps invoked are exactly those up to
\* the failing one, the worker writes status error with that message, and
\* the invocation ends there: it is not run again and invokes nothing more.
C16_StepFailureEndsInError ==
    /\ []((StepFailed /\ wPc \in {"except_error", "done"}) =>
            invoked = 1..wStep)
    /\ []((StepFailed /\ wPc = "done") =>
            /\ wTerminal = "error"
            /\ jobItem.error = StepName[wStep])
    /\ [][(StepFailed /\ wPc = "except_error" /\ wPc' # wPc) =>
            /\ wPc' = "done"
            /\ jobItem'.status = "error"
            /\ jobItem'.error = StepName[wStep]]_vars
    /\ [][(StepFailed /\ wPc = "done") =>
            /\ wPc' = "done"
            /\ invoked' = invoked]_vars

\* the search of step 3 raised: steps 1 to 3 were invoked and the item says
\* error with the name of step 3
C16_Witness ==
    /\ StepFailed
    /\ wPc = "done"
    /\ wStep = 3
    /\ invoked = {1, 2, 3}
    /\ jobItem.status = "error"
    /\ jobItem.error = "Searching jobs"

C18_CompleteOnlyAfterStored ==
    (jobItem.exists /\ jobItem.status = "complete") => s3Keys

\* the positions of the input whose listing is the first one with its url,
\* the url being non-empty
FirstOfUrl ==
    {i \in 1..Len(all_jobs) :
        /\ all_jobs[i].url # ""
        /\ \A j \in 1..(i - 1) : all_jobs[j].url # all_jobs[i].url}

\* C19: _deduplicate_jobs returns, in input order, exactly the listings that
\* are the first of the input with their non-empty url: one listing per
\* distinct non-empty url, none without a url.
C19_DedupKeepsFirstPerUrl ==
    dedupPc = "done" =>
        /\ Len(deduped) = Cardinality(FirstOfUrl)
        /\ \A k \in 1..Len(deduped) :
              \E i \in FirstOfUrl :
                  /\ Cardinality({j \in FirstOfUrl : j <= i}) = k
                  /\ deduped[k] = all_jobs[i]
        /\ \A k, m \in 1..Len(deduped) :
              k # m => deduped[k].url # deduped[m].url
        /\ \A k \in 1..Len(deduped) : deduped[k].url # ""
        /\ {deduped[k].url : k \in 1..Len(deduped)} =
              {all_jobs[i].url : i \in 1..Len(all_jobs)} \ {""}

\* a list with a listing without url, then two listings of one url with
\* different titles, has been deduplicated to the first of the two
C19_Witness ==
    /\ dedupPc = "done"
    /\ Len(all_jobs) = 3
    /\ all_jobs[1].url = ""
    /\ all_jobs[2].url = "u1"
    /\ all_jobs[3].url = "u1"
    /\ all_jobs[2].title # all_jobs[3].title
    /\ deduped = <<all_jobs[2]>>

\* C20: when _scrape_boards_parallel returns, results holds exactly one entry
\* per board: an empty list for a board whose task raised an exception other
\* than CancellationError, and for every other board the list its task
\* returned; only a cancellation makes the fan-out raise instead.
C20_FanOutOneResultPerBoard ==
    /\ fanPc = "returned" =>
          /\ Len(results) = NumBoards
          /\ \A b \in Boards :
                \E k \in 1..Len(results) :
                    /\ results[k].board = b
                    /\ results[k].jobs = IF futures[b].state = "raised"
                                         THEN <<>> ELSE futures[b].jobs
    /\ fanPc = "cancelled" => GetCancellationFlag(jobItem)
    /\ \A k \in 1..Len(results) :
          /\ futures[results[k].board].state = "raised"
                => results[k].jobs = <<>>
          /\ futures[results[k].board].state = "returned"
                => results[k].jobs = futures[results[k].board].jobs

\* one board's task raised, another returned two listings, and the fan-out
\* has returned
C20_Witness ==
    /\ fanPc = "returned"
    /\ \E b \in Boards : futures[b].state = "raised"
    /\ \E b \in Boards :
          /\ futures[b].state = "returned"
          /\ Len(futures[b].jobs) = 2
    /\ Len(results) = NumBoards

\* C21: once cancellation has been observed (by a board task, by the
\* collector of a fan-out, or by search_jobs before or after a fan-out),
\* search_jobs returns no list: the only way it leaves is by raising
\* CancellationError.
C21_CancelledSearchReturnsNothing ==
    /\ [](observedBy # {} =>
            /\ searchPc \in {"fanout", "cancelled"}
            /\ deduped = <<>>)
    /\ [][(observedBy # {} /\ searchPc' # searchPc) =>
            searchPc' = "cancelled"]_vars
    /\ [](searchPc = "cancelled" => observedBy # {})

\* a task of the second query saw the cancellation after the other board's
\* listings had been collected and the first query's listings kept;
\* search_jobs has raised
C21_Witness ==
    /\ searchPc = "cancelled"
    /\ "task" \in observedBy
    /\ queryNo = 2
    /\ all_jobs # <<>>
    /\ Len(results) >= 1
    /\ results[1].jobs # <<>>
    /\ deduped = <<>>

\* the listings of results that come from page p
FromPage(p) == {k \in 1..Len(scResults) : scResults[k].page = p}

\* C22: a search page is fetched only after pages that each held at least
\* pagination_threshold cards; the cards of a shorter page are still in
\* the returned list; a page with no cards makes scrape_jobs return at
\* once, with the listings it had.
C22_ShortPageEndsPagination ==
    /\ [](\A k \in 1..(Len(scFetched) - 1) :
            /\ scFetched[k].outcome = "ok"
            /\ scFetched[k].cards >= PaginationThreshold)
    /\ []((scPc = "returned" /\ scParams.per_page_limit = None) =>
            \A k \in 1..Len(scFetched) :
                Cardinality(FromPage(scFetched[k].page)) = scFetched[k].cards)
    /\ [][(scPc = "fetch" /\ scPc' # "fetch" /\ scCards' = 0) =>
            /\ scPc' = "returned"
            /\ scResults' = scResults]_vars

\* the second of three pages held one card, fewer than the threshold: the
\* call returned the full first page and that card, without a third fetch
C22_Witness ==
    /\ scPc = "returned"
    /\ scParams.num_pages = 3
    /\ scParams.per_page_limit = None
    /\ Len(scFetched) = 2
    /\ scFetched[2].outcome = "ok"
    /\ scFetched[2].cards = PaginationThreshold - 1
    /\ Len(scResults) = PaginationThreshold + 1
    /\ scResults[Len(scResults)].page = 2

\* the detail fetch of listing k failed or raised
DetailFailed(k) == scResults[k].detail \in {"failed", "raised"}

\* C23: in deep mode a detail fetch that fails or raises leaves its
\* listing in the results with full_description "", and the scrape goes on
\* with the next card: the results hold every processed card in order, and
\* the step after such a card is the step after any other card.
C23_DetailFailureKeepsListing ==
    /\ [](\A k \in 1..Len(scResults) :
            /\ DetailFailed(k) =>
                  /\ scParams.deep_mode
                  /\ scResults[k].full_description = ""
            /\ IF k = 1
               THEN scResults[k].page = 1 /\ scResults[k].card = 1
               ELSE \/ /\ scResults[k].page = scResults[k - 1].page
                       /\ scResults[k].card = scResults[k - 1].card + 1
                    \/ /\ scResults[k].page = scResults[k - 1].page + 1
                       /\ scResults[k].card = 1
                       /\ scResults[k - 1].card =
                              scFetched[scResults[k - 1].page].cards)
    /\ [][(/\ Len(scResults') = Len(scResults) + 1
           /\ scResults'[Len(scResults')].detail \in {"failed", "raised"}
           /\ ~LimitReached(scParams.per_page_limit, Len(scResults'))) =>
            IF scCard < scCards
            THEN scPc' = "card" /\ scCard' = scCard + 1
            ELSE scPc' = "end_page"]_vars

\* a deep scrape returned three listings: the detail fetch of the first
\* raised, that of the second failed, that of the third gave the text
C23_Witness ==
    /\ scPc = "returned"
    /\ scParams.deep_mode
    /\ Len(scResults) = 3
    /\ scResults[1].detail = "raised"
    /\ scResults[1].full_description = ""
    /\ scResults[2].detail = "failed"
    /\ scResults[2].full_description = ""
    /\ scResults[3].detail = "text"
    /\ scResults[3].full_description = "text"

C25_StoredBeforeTriggered ==
    [][(wPc = "none" /\ wPc' = "queued") =>
            /\ jobItem.exists
            /\ jobItem.status = "running"]_vars

\* C26: the step in which start_pipeline handles a failed worker trigger
\* answers 500 and leaves the job's item in the table with status error.
C26_TriggerFailureStoresError ==
    [][(apiPc = "stored" /\ apiPc' = "failed") =>
            /\ startStatus' = 500
            /\ jobItem'.exists
            /\ jobItem'.status = "error"]_vars

\* C27: a job whose start request succeeded has a terminal status in the
\* table at some later time, and no job's status is running or cancelling
\* from some time on for ever.
C27_EveryJobEnds ==
    /\ <>(startStatus = 200) =>
            <>(jobItem.exists /\ jobItem.status \in Terminal)
    /\ ~<>[](jobItem.exists /\ jobItem.status \in {"running", "cancelling"})

\* the cancellation request was written while the worker had not come to
\* step s: it was in an earlier step, or had not begun
RequestedBefore(s) ==
    /\ cancelAt.pc # "none"
    /\ cancelAt.step < s

\* C28: when the cancellation was requested before the pipeline came to a
\* step, the step has no effect: its agent is not called and the stored
\* progress never names its phase.
C28_CancelledStepHasNoEffect ==
    \A s \in 1..6 :
        RequestedBefore(s) =>
            /\ s \notin invoked
            /\ ~(jobItem.exists /\ jobItem.progress = Phase[s])

\* the agent of step s has been called and has not returned
InWork(s) ==
    /\ wStep = s
    /\ wPc \in {"inwork", "endwork"}

\* C29 as stated: while the work of any of the six steps is in progress,
\* the stored progress names that step's phase.
C29_ProgressNamesRunningStep ==
    \A s \in 1..6 :
        InWork(s) => (jobItem.exists /\ jobItem.progress = Phase[s])

\* C29 amended: while the work of step 1, 3, 4, 5 or 6 is in progress the
\* stored progress names that step's phase; step 2 writes no progress, and
\* while its work is in progress the stored progress names the phase of
\* step 1.
C29_ProgressNamesRunningPhase ==
    /\ \A s \in {1, 3, 4, 5, 6} :
          InWork(s) => (jobItem.exists /\ jobItem.progress = Phase[s])
    /\ InWork(2) => (jobItem.exists /\ jobItem.progress = Phase[1])

\* the scorer is at work and the stored progress names the scoring phase
C29_Witness ==
    /\ InWork(4)
    /\ wPc = "inwork"
    /\ jobItem.status = "running"
    /\ jobItem.progress = "scoring"

\* C30: the agents are called in the order of the steps 1 to 6, each at
\* most once: the agent of a step is called only when exactly the agents of
\* all earlier steps have been called, and while an agent is at work or
\* after it returned the agents called are those of the steps up to the
\* current one, the earlier ones having returned.
C30_StepsInOrderOnce ==
    /\ [][(wPc = "work" /\ wPc' # "work") =>
            /\ wStep \notin invoked
            /\ invoked = 1..(wStep - 1)
            /\ invoked' = 1..wStep]_vars
    /\ [][invoked' # invoked => wPc = "work"]_vars
    /\ [](\E k \in 0..6 : invoked = 1..k)
    /\ [](wPc \in {"inwork", "endwork"} => invoked = 1..wStep)
    /\ [][wStep' # wStep =>
            /\ wStep' = wStep + 1
            /\ wPc \in {"queued", "endwork"}]_vars

\* the run is complete and the six agents have been called
C30_Witness ==
    /\ wTerminal = "complete"
    /\ invoked = 1..6
    /\ wStep = 6

\* C31: a worker invocation that runs writes a terminal status exactly
\* once: the write stores complete, cancelled or error and ends the
\* invocation, no second write follows, every later change of the item is
\* made by a cancel request, and an invocation that was queued comes to its
\* write.
C31_OneTerminalWrite ==
    /\ [](wPc = "done" <=> wTerminal # "none")
    /\ [][(wTerminal = "none" /\ wTerminal' # "none") =>
            /\ wTerminal' \in Terminal
            /\ jobItem'.exists
            /\ jobItem'.status = wTerminal'
            /\ wPc' = "done"]_vars
    /\ [][wTerminal # "none" =>
            /\ wTerminal' = wTerminal
            /\ wPc' = wPc
            /\ jobItem' # jobItem => cPc = "write"]_vars
    /\ <>(wPc = "queued") => <>(wTerminal # "none")

\* the invocation ran all six steps and has written complete, its only
\* terminal write
C31_Witness ==
    /\ wPc = "done"
    /\ wTerminal = "complete"
    /\ jobItem.status = "complete"
    /\ jobItem.result = "result_data"
    /\ invoked = 1..6

LastFetchFailed ==
    /\ scFetched # <<>>
    /\ scFetched[Len(scFetched)].outcome \in {"none", "non200"}

\* C33: a search page that cannot be fetched ends the call with a normal
\* return in the same step and leaves the results as they were; no page is
\* fetched after it; and the list returned holds exactly the cards of the
\* pages fetched before it.
C33_FailedPageReturnsEarlierListings ==
    /\ [][(scPc = "fetch" /\ scFetched' # scFetched /\ LastFetchFailed') =>
            /\ scPc' = "returned"
            /\ scResults' = scResults]_vars
    /\ [](\A k \in 1..(Len(scFetched) - 1) : scFetched[k].outcome = "ok")
    /\ [](LastFetchFailed =>
            /\ scPc = "returned"
            /\ FromPage(scFetched[Len(scFetched)].page) = {}
            /\ \A k \in 1..(Len(scFetched) - 1) :
                  Cardinality(FromPage(scFetched[k].page)) = scFetched[k].cards
            /\ \A k \in 1..Len(scResults) :
                  scResults[k].page < scFetched[Len(scFetched)].page)

\* the second of three pages could not be fetched: the call returned the
\* listings of the full first page
C33_Witness ==
    /\ scPc = "returned"
    /\ scParams.num_pages = 3
    /\ Len(scFetched) = 2
    /\ scFetched[2].outcome = "none"
    /\ Len(scResults) = PaginationThreshold
    /\ scResults[1].page = 1

\* C34: a search page is fetched only in the step after a cancellation
\* check that found no request; a check that finds one ends the call by
\* raising CancellationError, with that page not fetched; and a call that
\* has raised fetches nothing and returns nothing afterwards.
C34_CheckBeforeEveryPage ==
    /\ [][scFetched' # scFetched => scPc = "fetch"]_vars
    /\ [][(scPc' = "fetch" /\ scPc # "fetch") =>
            /\ scPc = "page_check"
            /\ ~GetCancellationFlag(jobItem)]_vars
    /\ [][(scPc = "page_check" /\ scPc' # scPc
                /\ GetCancellationFlag(jobItem)) =>
            /\ scPc' = "cancelled"
            /\ scFetched' = scFetched]_vars
    /\ [][scPc = "cancelled" =>
            /\ scPc' = "cancelled"
            /\ scFetched' = scFetched]_vars
    /\ [](scPc = "page_check" => Len(scFetched) = scPage - 1)

\* the check before the second page found the request: the call raised
\* with the listings of the first page collected and the second page not
\* fetched
C34_Witness ==
    /\ scPc = "cancelled"
    /\ scPage = 2
    /\ Len(scFetched) = 1
    /\ Len(scResults) = PaginationThreshold
    /\ GetCancellationFlag(jobItem)

\* no task of the fan-out is waiting for a thread or running
NoTaskRunning ==
    \A b \in Boards : futures[b].state \notin {"pending", "running"}

\* C35: when _scrape_boards_parallel has returned or raised, and whenever
\* search_jobs is outside a fan-out (before the next query, after the last
\* one, having raised), every board task has finished or was cancelled
\* before it started; a task cancelled before it started never runs.
C35_NoTaskOutlivesFanOut ==
    /\ [](fanPc \in {"returned", "cancelled"} => NoTaskRunning)
    /\ [](searchPc \in {"query_check", "dedup", "returned", "cancelled"} =>
            NoTaskRunning)
    /\ [][\A b \in Boards :
            futures[b].state = "never_started" =>
                futures'[b].state = "never_started"]_vars

\* the collector saw the cancellation while the other board's task was
\* running; the fan-out raised only after that task had returned its
\* listings, which nobody collected
C35_Witness ==
    /\ fanPc = "cancelled"
    /\ searchPc = "fanout"
    /\ "collector" \in observedBy
    /\ \E b \in Boards :
          /\ futures[b].state = "returned"
          /\ ~futures[b].collected
          /\ futures[b].jobs # <<>>

\* C36: when the run ends in error through the scoring step's "no jobs
\* were scored" (step 4 failed and no cancellation was seen), no board and
\* no query had yielded a listing.
C36_ErrorOnlyWhenNothingFound ==
    (wTerminal = "error" /\ wStep = 4 /\ cancelSeen = "none") =>
        all_jobs = <<>>

\* C37: the window_start stored in the rate-limit record never decreases:
\* no write of any call, under any interleaving of calls that computed
\* their window at different times, replaces it with an earlier one.
C37_WindowStartNeverDecreases ==
    [][(rlItem.exists /\ rlItem'.exists) =>
          rlItem'.window_start >= rlItem.window_start]_vars

\* C38: a call that returns allowed = FALSE leaves the record as it is:
\* neither its failed conditional update nor the step by which it returns
\* the rejection changes count, window_start or ttl.
C38_RejectedCallLeavesRecord ==
    [][\A p \in Callers :
          (\/ rlPc[p] = "update" /\ rlPc'[p] = "get"
           \/ /\ rlPc[p] # "done"
              /\ rlPc'[p] = "done"
              /\ ~rlResult'[p].allowed) =>
             rlItem' = rlItem]_vars

\* a call made later in a full window was rejected; the ttl it computed
\* differs from the stored one, which the record still carries
C38_Witness ==
    \E p \in Callers :
       /\ rlPc[p] = "done"
       /\ ~rlResult[p].allowed
       /\ rlItem.exists
       /\ rlItem.count = RATE_LIMIT_REQUESTS
       /\ rlItem.window_start = rlWindow[p]
       /\ rlItem.ttl # rlTtl[p]

\* C39: every record a read can return has one of the five statuses,
\* whatever sequence of create, progress update and status update calls
\* (also on a job_id without a record) came before.
C39_ReadableStatusIsKnown ==
    jobItem.exists => GetJobState(jobItem, TRUE) \in Statuses

\* the non-empty urls of a list of listings
UrlSet(jobs) == {jobs[i].url : i \in 1..Len(jobs)} \ {""}

\* C40: the set of urls search_jobs returns is fixed by what the boards
\* returned, whatever the order in which their tasks completed: every query
\* adds the listings of all its boards to all_jobs, and the returned list
\* holds exactly the non-empty urls of all_jobs.
C40_UrlSetIndependentOfOrder ==
    /\ [](searchPc = "returned" => UrlSet(deduped) = UrlSet(all_jobs))
    /\ [][(searchPc = "fanout" /\ searchPc' \in {"query_check", "dedup"}) =>
            UrlSet(all_jobs') =
                UrlSet(all_jobs) \cup
                UNION {UrlSet(futures[b].jobs) : b \in Boards}]_vars

\* the search returned after a query whose boards completed in the reverse
\* of the order of submission, with different listings that share a url;
\* the returned list carries that url with the title of the board that
\* completed first
C40_Witness ==
    /\ searchPc = "returned"
    /\ Len(results) = NumBoards
    /\ results[1].board # 1
    /\ results[1].jobs # <<>>
    /\ \E k \in 2..Len(results) :
          /\ results[k].jobs # <<>>
          /\ results[k].jobs # results[1].jobs
          /\ UrlSet(results[k].jobs) \cap UrlSet(results[1].jobs) # {}
    /\ \E i \in 1..Len(deduped) : deduped[i] = results[1].jobs[1]
    /\ UrlSet(deduped) = {"u1", "u2"}

====
